---- MODULE Spec2Model ----
(***************************************************************************)
(* Model of the transletta translation compiler core:                      *)
(*   Translation        (core/entities/translation.ts, bundled in          *)
(*                       cli/index.ts)                                     *)
(*   TranslationManager (core/managers/translation-manager.ts,             *)
(*                       unnamed/part_002)                                 *)
(*   Transletta         (transletta.ts, unnamed/part_004)                  *)
(*                                                                         *)
(* Representation of JavaScript values.                                    *)
(*   - A dotted string ("a.b.c", a unit name, a file name) is the sequence *)
(*     of its segments <<"a","b","c">>; the empty string is <<>>, and      *)
(*     "p." is <<"p","">>.  split('.') / join('.') / slice(indexOf('.'))   *)
(*     are Head, Tail and \o on these sequences.                           *)
(*   - A TOML string is a sequence of tokens: literal text, an            *)
(*     apostrophe, a parameter placeholder {name}, an embedding            *)
(*     placeholder {@path}, or the text of a reference target              *)
(*     (@name.path, @@project.path).  Literal text holds no line break     *)
(*     and none of the patterns $$, $&, $` and $' that String.replace      *)
(*     rewrites in a replacement string.                                   *)
(*   - A TOML table is the sequence of its entries in document order       *)
(*     (Object.entries order).  Keys are not canonical array indexes and   *)
(*     not names of Object.prototype members; values are strings, tables,  *)
(*     arrays and numbers.                                                 *)
(***************************************************************************)
EXTENDS Integers, Sequences, FiniteSets, TLC

VARIABLES
  files,              \* the input directory on disk
  cache,              \* TranslationManager.cache
  compilationResult,  \* TranslationManager.compilationResult
  returned,           \* outcome of the last public operation
  host                \* the watcher or plugin that drives the instance

vars == <<files, cache, compilationResult, returned, host>>

(***************************************************************************)
(* Bounds                                                                  *)
(***************************************************************************)
\* depth of the JavaScript call stack available to serializeWithContext;
\* exhausting it is the RangeError of an unbounded recursion
MaxStack == 4

(***************************************************************************)
(* Values                                                                  *)
(***************************************************************************)
Lit(x) == [k |-> "lit", p |-> <<x>>]
Apostrophe == [k |-> "apos", p |-> <<"'">>]
Par(n) == [k |-> "par", p |-> <<n>>]
Emb(path) == [k |-> "emb", p |-> path]
RefText(prefix, segs) == [k |-> "ref", p |-> <<prefix>> \o segs]

Str(toks) == [t |-> "str", v |-> toks]
Tbl(ents) == [t |-> "tbl", v |-> ents]
Arr(items) == [t |-> "arr", v |-> items]
Num == [t |-> "num", v |-> <<>>]
Undef == [t |-> "undef", v |-> <<>>]
Ent(key, val) == [key |-> key, val |-> val]

\* a reference target string of the [references] table
Ref(prefix, segs) == Str(<<RefText(prefix, segs)>>)

Contains(seq, x) == \E i \in 1..Len(seq) : seq[i] = x

\* obj[key] on a table held as an entry list
Lookup(ents, key) ==
  IF \E i \in 1..Len(ents) : ents[i].key = key
  THEN ents[CHOOSE i \in 1..Len(ents) : ents[i].key = key].val
  ELSE Undef

\* obj[key] = val on an object held as an entry list (insertion order kept)
SetKey(ents, key, val) ==
  IF \E i \in 1..Len(ents) : ents[i].key = key
  THEN [i \in 1..Len(ents) |-> IF ents[i].key = key THEN Ent(key, val) ELSE ents[i]]
  ELSE Append(ents, Ent(key, val))

\* Object.entries of an array: index keys "0", "1", ...
ArrayEntries(items) == [i \in 1..Len(items) |-> Ent(ToString(i - 1), items[i])]

\* Object.entries of any value the traversals recurse into
Entries(val) ==
  IF val.t = "tbl" THEN val.v
  ELSE IF val.t = "arr" THEN ArrayEntries(val.v)
  ELSE <<>>

\* (entry as Record<string, any>)?.[path]
Prop(entry, path) == Lookup(Entries(entry), path)

(***************************************************************************)
(* Translation                                                             *)
(***************************************************************************)
\* new Translation(manager, options); data is the parsed document
Translation(locale, name, path, data) ==
  [locale |-> locale, name |-> name, path |-> path, data |-> data]

getMetadata(this) == [name |-> this.name, locale |-> this.locale, path |-> this.path]

\* diagnostics: TranslettaSerializationError.getDiagnosticInfo
NoDiag == [path |-> <<>>, name |-> <<>>, kind |-> "none", args |-> <<>>]
Diag(translation, kind, args) ==
  [path |-> translation.path, name |-> translation.name, kind |-> kind, args |-> args]

\* Translation.get: the result, or the thrown "Path ... not found" error
Returned(val) == [thrown |-> FALSE, val |-> val, seg |-> ""]
PathNotFound(seg) == [thrown |-> TRUE, val |-> Undef, seg |-> seg]

RECURSIVE getWalk(_, _)
getWalk(entry, paths) ==
  IF paths = <<>> THEN Returned(entry)
  ELSE LET val == Prop(entry, Head(paths))
       IN IF val.t = "undef" THEN PathNotFound(Head(paths))
          ELSE getWalk(val, Tail(paths))

get(this, key) ==
  IF Len(key) > 1
  THEN getWalk(Lookup(this.data, key[1]), Tail(key))
  ELSE IF Len(key) = 1 THEN Returned(Lookup(this.data, key[1]))
  ELSE Returned(Undef)

\* Collection.get on the locale level and on the unit level of the cache
CacheGet(store, locale) ==
  IF \E i \in 1..Len(store) : store[i].locale = locale
  THEN [found |-> TRUE,
        units |-> store[CHOOSE i \in 1..Len(store) : store[i].locale = locale].units]
  ELSE [found |-> FALSE, units |-> <<>>]

UnitGet(units, name) ==
  IF \E i \in 1..Len(units) : units[i].name = name
  THEN [found |-> TRUE,
        unit |-> units[CHOOSE i \in 1..Len(units) : units[i].name = name]]
  ELSE [found |-> FALSE, unit |-> Translation("", <<>>, <<>>, <<>>)]

\* Translation.getNeighbor(name); name is one segment (the callers pass
\* the part of the reference before its first dot)
getNeighbor(this, name, store) ==
  IF <<name>> = this.name
  THEN [err |-> "diag", diag |-> Diag(this, "self-reference", << <<name>> >>),
        found |-> FALSE, unit |-> this]
  ELSE LET st == CacheGet(store, this.locale)
           r == UnitGet(st.units, <<name>>)
       IN [err |-> "none", diag |-> NoDiag,
           found |-> st.found /\ r.found, unit |-> r.unit]

\* Translation.getWorkspaceTranslation: a stub that finds nothing
getWorkspaceTranslation(this, projectName, translationName) == FALSE

\* const { references: referencesMap, ...data } = this.data
referencesMap(this) ==
  LET r == Lookup(this.data, "references") IN IF r.t = "tbl" THEN r.v ELSE <<>>
dataWithoutReferences(this) == SelectSeq(this.data, LAMBDA e : e.key # "references")

startsWith(reference, prefix) ==
  /\ reference.t = "str"
  /\ Len(reference.v) > 0
  /\ reference.v[1].k = "ref"
  /\ reference.v[1].p[1] = prefix

\* the text of a string, as the segments of the diagnostics that quote it
TextOf(val) == IF Len(val.v) > 0 THEN val.v[1].p ELSE <<>>

\* the loop "Validate and resolve references" of serializeWithContext
RECURSIVE resolveReferences(_, _, _, _)
resolveReferences(this, entries, store, resolved) ==
  IF entries = <<>> THEN [err |-> "none", diag |-> NoDiag, table |-> resolved]
  ELSE
    LET alias == Head(entries).key
        reference == Head(entries).val
        rest == Tail(reference.v[1].p)
        keyPath == IF Len(rest) > 1 THEN Tail(rest) ELSE <<>>
        first == IF Len(rest) > 0 THEN rest[1] ELSE ""
        failed(d) == [err |-> "diag", diag |-> d, table |-> resolved]
        neighbor(n) ==
          IF n.err # "none" THEN failed(n.diag)
          ELSE IF ~n.found
          THEN failed(Diag(this, "reference-not-found", <<TextOf(reference)>>))
          ELSE resolveReferences(this, Tail(entries), store,
                 SetKey(resolved, alias, [translation |-> n.unit, keyPath |-> keyPath]))
    IN IF startsWith(reference, "@@")
       THEN \* getWorkspaceTranslation returns null
            failed(Diag(this, "reference-not-found", <<TextOf(reference)>>))
       ELSE IF startsWith(reference, "@")
       THEN neighbor(getNeighbor(this, first, store))
       ELSE failed(Diag(this, "invalid-reference-format", <<TextOf(reference)>>))

\* Translation.traverse: the (key, value) pairs handed to the callback,
\* pre-order, tables and arrays included
RECURSIVE traverse(_)
traverse(ents) ==
  IF ents = <<>> THEN <<>>
  ELSE <<Head(ents)>> \o traverse(Entries(Head(ents).val)) \o traverse(Tail(ents))

\* a variant of the parameter pattern that also matches {@path}
parameterMatchesAnyBrace(toks) == SelectSeq(toks, LAMBDA tok : tok.k \in {"par", "emb"})

\* value.match(PARAMETER_REGEX) and value.match(EMBEDDING_REGEX)
parameterMatches(toks) == SelectSeq(toks, LAMBDA tok : tok.k = "par")
embeddingMatches(toks) == SelectSeq(toks, LAMBDA tok : tok.k = "emb")

\* the loop that pushes the parameter names not yet in the list
RECURSIVE extractParameters(_, _)
extractParameters(parameters, matches) ==
  IF matches = <<>> THEN parameters
  ELSE LET paramName == Head(matches).p[1]
       IN extractParameters(
            IF Contains(parameters, paramName) THEN parameters
            ELSE Append(parameters, paramName),
            Tail(matches))

\* String(resolvedValue), the implicit conversion made by String.replace
ToText(val) ==
  IF val.t = "str" THEN val.v
  ELSE IF val.t = "tbl" THEN <<Lit("[object Object]")>>
  ELSE IF val.t = "arr" THEN <<Lit("[array items]")>>
  ELSE <<Lit("[number]")>>

\* value.replace(match, resolvedValue): the first occurrence only
replace(toks, match, replacement) ==
  IF \E i \in 1..Len(toks) : toks[i] = match
  THEN LET i == CHOOSE j \in 1..Len(toks) :
                  toks[j] = match /\ \A h \in 1..(j - 1) : toks[h] # match
       IN SubSeq(toks, 1, i - 1) \o replacement \o SubSeq(toks, i + 1, Len(toks))
  ELSE toks

\* resolvedValue.includes('{@')
includesEmbedding(val) == \E i \in 1..Len(val.v) : val.v[i].k = "emb"

\* toml.parse(`temp = '${resolvedValue}'`): a TOML literal string has no
\* escapes and ends at the first apostrophe, so the document parses back
\* to the value unless the value holds an apostrophe, and then parse throws
tempContent(resolvedValue) ==
  IF \E i \in 1..Len(resolvedValue.v) : resolvedValue.v[i].k = "apos"
  THEN [t |-> "malformed", v |-> <<>>]
  ELSE Tbl(<<Ent("temp", resolvedValue)>>)

\* the temporary translation built around a referenced value
tempTranslation(translation, resolvedValue) ==
  Translation(translation.locale, translation.name \o <<"temp">>, translation.path,
              tempContent(resolvedValue).v)

\* results of serializeWithContext: the serialized translation or the error
Serialized(this, content, parameters) ==
  [err |-> "none", diag |-> NoDiag, metadata |-> getMetadata(this),
   content |-> content, parameters |-> parameters]
Thrown(this, d) ==
  [err |-> "diag", diag |-> d, metadata |-> getMetadata(this),
   content |-> <<>>, parameters |-> <<>>]
\* an error that is no TranslettaSerializationError: the RangeError of an
\* exhausted call stack ("range"), the error of toml.parse ("toml")
Crashed(this, err) ==
  [err |-> err, diag |-> NoDiag, metadata |-> getMetadata(this),
   content |-> <<>>, parameters |-> <<>>]
StackOverflow(this) == Crashed(this, "range")

Value(val) == [err |-> "none", diag |-> NoDiag, val |-> val]
ValueError(err, d) == [err |-> err, diag |-> d, val |-> Undef]

\* visited.has(currentPath)
visitedHas(visited, currentPath) == Contains(visited, currentPath)

RECURSIVE serializeWithContext(_, _, _, _)
RECURSIVE resolveEmbedding(_, _, _, _, _, _)
RECURSIVE resolveMatches(_, _, _, _, _, _, _)
RECURSIVE processEntries(_, _, _, _, _, _, _, _)

\* referenceKeyPath ? `${referenceKeyPath}.${keyPath}` : keyPath
\* a variant that forgets the key path declared with the alias
fullKeyPathDropsReference(referenceKeyPath, keyPath) == keyPath

fullKeyPath(referenceKeyPath, keyPath) ==
  IF referenceKeyPath # <<>>
  THEN referenceKeyPath \o (IF keyPath = <<>> THEN <<"">> ELSE keyPath)
  ELSE keyPath

\* the branch "Reference exists in [references] block"
resolveFromReference(this, alias, keyPath, resolvedReferences, newVisited, store, fuel) ==
  LET resolved(translation, path) ==
        LET notFound == ValueError("diag", Diag(this, "key-not-found-in",
                                                <<path, <<alias>> >>))
            nested(tempSerialized) ==
              IF tempSerialized.err # "none"
              THEN ValueError(tempSerialized.err, tempSerialized.diag)
              ELSE IF Lookup(tempSerialized.content, "temp").t = "undef" THEN notFound
              ELSE Value(Lookup(tempSerialized.content, "temp"))
            fetched(got) ==
              IF got.thrown
              THEN ValueError("diag", Diag(translation, "path-not-found", << <<got.seg>> >>))
              ELSE IF got.val.t = "str" /\ includesEmbedding(got.val)
              THEN IF tempContent(got.val).t = "malformed"
                   THEN ValueError("toml", NoDiag)
                   ELSE nested(serializeWithContext(tempTranslation(translation, got.val),
                                                    newVisited, store, fuel - 1))
              ELSE IF got.val.t = "undef" THEN notFound
              ELSE Value(got.val)
        IN fetched(get(translation, path))
      reference(ref) ==
        resolved(ref.translation, fullKeyPath(ref.keyPath, keyPath))
  IN reference(Lookup(resolvedReferences, alias))

\* the branch "Try local lookup"
resolveLocally(this, fullPath) ==
  LET fetched(got) ==
        IF got.thrown
        THEN ValueError("diag", Diag(this, "path-not-found", << <<got.seg>> >>))
        ELSE IF got.val.t = "undef"
        THEN ValueError("diag", Diag(this, "key-not-found-locally", <<fullPath>>))
        ELSE Value(got.val)
  IN fetched(get(this, fullPath))

\* is alias declared: if (resolvedReferences[alias])
isDeclared(resolvedReferences, alias) ==
  \E i \in 1..Len(resolvedReferences) : resolvedReferences[i].key = alias

\* a variant of the lookup order that prefers a local top-level key
resolveEmbeddingLocalFirst(this, fullPath, resolvedReferences, newVisited, store, fuel) ==
  IF Lookup(this.data, Head(fullPath)).t # "undef"
     \/ ~isDeclared(resolvedReferences, Head(fullPath))
  THEN resolveLocally(this, fullPath)
  ELSE resolveFromReference(this, Head(fullPath), Tail(fullPath), resolvedReferences,
                            newVisited, store, fuel)

\* one embedding match: "Lookup order: references -> local"
resolveEmbedding(this, fullPath, resolvedReferences, newVisited, store, fuel) ==
  LET alias == Head(fullPath)
      keyPath == Tail(fullPath)
  IN IF isDeclared(resolvedReferences, alias)
     THEN resolveFromReference(this, alias, keyPath, resolvedReferences,
                               newVisited, store, fuel)
     ELSE resolveLocally(this, fullPath)

\* for (const match of embeddingMatches) { ... value = value.replace(...) }
resolveMatches(this, value, matches, resolvedReferences, newVisited, store, fuel) ==
  IF matches = <<>> THEN Value(Str(value))
  ELSE LET match == Head(matches)
           replaced(r) ==
             IF r.err # "none" THEN r
             ELSE resolveMatches(this, replace(value, match, ToText(r.val)),
                                 Tail(matches), resolvedReferences, newVisited, store, fuel)
       IN replaced(resolveEmbedding(this, match.p, resolvedReferences, newVisited,
                                    store, fuel))

\* the traverse callback applied to the visited pairs, in order
processEntries(this, pairs, resolvedReferences, newVisited, store, fuel, content, parameters) ==
  IF pairs = <<>> THEN Serialized(this, content, parameters)
  ELSE LET key == Head(pairs).key
           value == Head(pairs).val
       IN IF value.t # "str"
          THEN processEntries(this, Tail(pairs), resolvedReferences, newVisited,
                              store, fuel, content, parameters)
          ELSE LET assigned(r) ==
                     IF r.err = "diag" THEN Thrown(this, r.diag)
                     ELSE IF r.err # "none" THEN Crashed(this, r.err)
                     ELSE processEntries(this, Tail(pairs), resolvedReferences,
                            newVisited, store, fuel,
                            SetKey(content, key, r.val),
                            extractParameters(parameters, parameterMatches(value.v)))
               IN assigned(resolveMatches(this, value.v, embeddingMatches(value.v),
                                          resolvedReferences, newVisited, store, fuel))

serializeWithContext(this, visited, store, fuel) ==
  LET currentPath == <<this.locale>> \o this.name
      newVisited == Append(visited, currentPath)
      resolvedReferences(refs) ==
        IF refs.err # "none" THEN Thrown(this, refs.diag)
        ELSE processEntries(this, traverse(dataWithoutReferences(this)), refs.table,
                            newVisited, store, fuel, <<>>, <<>>)
  IN IF fuel = 0 THEN StackOverflow(this)
     ELSE IF visitedHas(visited, currentPath)
     THEN Thrown(this, Diag(this, "circular-reference", newVisited))
     ELSE resolvedReferences(resolveReferences(this, referencesMap(this), store, <<>>))

\* Translation.serialize
serialize(this, store) == serializeWithContext(this, <<>>, store, MaxStack)

(***************************************************************************)
(* TranslationManager                                                      *)
(***************************************************************************)
\* configuration (config/common.ts DEFAULT_CONFIG)
primaryLocale == "en"
outputDirectory == "generated"
isWorkspaceMode == FALSE

\* entry.name.startsWith('.') || entry.name.startsWith('_')
HiddenNames == {".git", "_drafts"}

\* file.name.endsWith('.toml'), file.name.replace(/\.toml$/, '')
endsWithToml(fname) == Len(fname) > 1 /\ fname[Len(fname)] = "toml"
stripToml(fname) == SubSeq(fname, 1, Len(fname) - 1)

\* the inner loop of scan over the files of one locale directory;
\* toml.parse throws on a malformed document
RECURSIVE scanFiles(_, _, _)
scanFiles(locale, localeFiles, localeTranslations) ==
  IF localeFiles = <<>> THEN [threw |-> FALSE, units |-> localeTranslations]
  ELSE LET file == Head(localeFiles)
           translation == Translation(locale, stripToml(file.name),
                                      <<locale>> \o file.name, file.content.v)
       IN IF ~file.isFile \/ ~endsWithToml(file.name)
          THEN scanFiles(locale, Tail(localeFiles), localeTranslations)
          ELSE IF file.content.t # "tbl"
          THEN [threw |-> TRUE, units |-> localeTranslations]
          ELSE scanFiles(locale, Tail(localeFiles),
                 IF \E i \in 1..Len(localeTranslations) :
                      localeTranslations[i].name = translation.name
                 THEN [i \in 1..Len(localeTranslations) |->
                         IF localeTranslations[i].name = translation.name
                         THEN translation ELSE localeTranslations[i]]
                 ELSE Append(localeTranslations, translation))

\* the outer loop of scan over the entries of the input directory
RECURSIVE scanEntries(_, _)
scanEntries(contents, store) ==
  IF contents = <<>> THEN [threw |-> FALSE, cache |-> store]
  ELSE LET entry == Head(contents)
           r == scanFiles(entry.name, entry.files, <<>>)
           upserted == Append(store, [locale |-> entry.name, units |-> r.units])
       IN IF \/ ~entry.isDirectory
             \/ entry.name \in HiddenNames
             \/ entry.name = outputDirectory
          THEN scanEntries(Tail(contents), store)
          ELSE IF r.threw THEN [threw |-> TRUE, cache |-> upserted]
          ELSE scanEntries(Tail(contents), upserted)

\* a variant of scan that adds to the store it finds
scanWithoutClear(force, store, disk) ==
  IF ~force /\ Len(store) > 0 THEN [threw |-> FALSE, cache |-> store, read |-> FALSE]
  ELSE LET scanned(r) == [threw |-> r.threw, cache |-> r.cache, read |-> TRUE]
       IN scanned(scanEntries(disk, store))

\* TranslationManager.scan(force): the cache it leaves and whether it threw
\* (read: whether the input directory was read)
scan(force, store, disk) ==
  IF ~force /\ Len(store) > 0 THEN [threw |-> FALSE, cache |-> store, read |-> FALSE]
  ELSE LET scanned(r) == [threw |-> r.threw, cache |-> r.cache, read |-> TRUE]
       IN scanned(scanEntries(disk, <<>>))

\* translations.map(serialize with try/catch).filter(non-null) of one locale
RECURSIVE serializeAll(_, _, _, _)
serializeAll(translations, store, serializedTranslations, diagnosticsData) ==
  IF translations = <<>>
  THEN [threw |-> "none", translations |-> serializedTranslations,
        diagnostics |-> diagnosticsData]
  ELSE LET mapped(s) ==
             IF s.err = "none"
             THEN serializeAll(Tail(translations), store,
                    Append(serializedTranslations,
                           [metadata |-> s.metadata, content |-> s.content,
                            parameters |-> s.parameters]),
                    diagnosticsData)
             ELSE IF s.err = "diag"
             THEN serializeAll(Tail(translations), store, serializedTranslations,
                               Append(diagnosticsData, s.diag))
             ELSE [threw |-> s.err, translations |-> serializedTranslations,
                   diagnostics |-> diagnosticsData]
       IN mapped(serialize(Head(translations), store))

\* this.cache.forEach(...) of TranslationManager.compile
RECURSIVE compileLocales(_, _, _, _)
compileLocales(locales, store, result, diagnosticsData) ==
  IF locales = <<>>
  THEN [threw |-> "none", result |-> result, diagnostics |-> diagnosticsData]
  ELSE LET set(r) ==
             IF r.threw # "none"
             THEN [threw |-> r.threw, result |-> result, diagnostics |-> r.diagnostics]
             ELSE compileLocales(Tail(locales), store,
                    Append(result, [locale |-> Head(locales).locale,
                                    translations |-> r.translations]),
                    r.diagnostics)
       IN set(serializeAll(Head(locales).units, store, <<>>, diagnosticsData))

\* a variant of compile that never answers from the collection it holds
compileAlways(force, store, current) ==
  LET compiled(r) == [threw |-> r.threw, result |-> r.result,
                      diagnostics |-> r.diagnostics, pass |-> TRUE]
  IN compiled(compileLocales(store, store, <<>>, <<>>))

\* TranslationManager.compile({force}): the result collection it leaves
\* and the diagnostics it returns
\* (pass: whether the locales of the store were gone through)
compile(force, store, current) ==
  IF ~force /\ Len(current) > 0
  THEN [threw |-> "none", result |-> current, diagnostics |-> <<>>, pass |-> FALSE]
  ELSE LET compiled(r) == [threw |-> r.threw, result |-> r.result,
                           diagnostics |-> r.diagnostics, pass |-> TRUE]
       IN compiled(compileLocales(store, store, <<>>, <<>>))

(***************************************************************************)
(* Transletta                                                              *)
(***************************************************************************)
\* keys.add(k): a Set keeps one copy, in insertion order
RECURSIVE addAll(_, _)
addAll(keys, more) ==
  IF more = <<>> THEN keys
  ELSE addAll(IF Contains(keys, Head(more)) THEN keys ELSE Append(keys, Head(more)),
              Tail(more))

\* a variant of extractKeys that stops at the top-level keys
extractKeysTopLevel(data, prefix) == [i \in 1..Len(data) |-> prefix \o <<data[i].key>>]

\* Transletta.extractKeys(data, prefix)
RECURSIVE extractKeys(_, _)
extractKeys(data, prefix) ==
  IF data = <<>> THEN <<>>
  ELSE LET key == Head(data).key
           value == Head(data).val
           fullKey == prefix \o <<key>>
           own == IF value.t = "tbl" THEN extractKeys(value.v, fullKey) ELSE <<fullKey>>
       IN addAll(own, extractKeys(Tail(data), prefix))

SchemaError(kind, locale, fileName, key) ==
  [kind |-> kind, locale |-> locale, file |-> fileName, key |-> key]

unitNames(units) == [i \in 1..Len(units) |-> units[i].name]

\* "Check for missing files" and "Check for extra files"
missingFiles(locale, primaryFiles, localeFiles) ==
  LET missing == SelectSeq(primaryFiles, LAMBDA f : ~Contains(localeFiles, f))
  IN [i \in 1..Len(missing) |-> SchemaError("missing-file", locale, missing[i], <<>>)]
extraFiles(locale, primaryFiles, localeFiles) ==
  LET extra == SelectSeq(localeFiles, LAMBDA f : ~Contains(primaryFiles, f))
  IN [i \in 1..Len(extra) |-> SchemaError("extra-file", locale, extra[i], <<>>)]

\* "Check for missing keys" and "Check for extra keys" of one file
keyErrors(locale, fileName, primaryKeysForFile, localeKeys) ==
  LET missing == SelectSeq(primaryKeysForFile, LAMBDA k : ~Contains(localeKeys, k))
      extra == SelectSeq(localeKeys, LAMBDA k : ~Contains(primaryKeysForFile, k))
  IN [i \in 1..Len(missing) |-> SchemaError("missing-key", locale, fileName, missing[i])]
     \o [i \in 1..Len(extra) |-> SchemaError("extra-key", locale, fileName, extra[i])]

\* "Check key structure for each file" of one locale
RECURSIVE checkKeys(_, _, _)
checkKeys(locale, translations, primaryTranslations) ==
  IF translations = <<>> THEN <<>>
  ELSE LET translation == Head(translations)
           primary == UnitGet(primaryTranslations, translation.name)
           here == IF ~primary.found THEN <<>>
                   ELSE keyErrors(locale, translation.name,
                                  extractKeys(primary.unit.data, <<>>),
                                  extractKeys(translation.data, <<>>))
       IN here \o checkKeys(locale, Tail(translations), primaryTranslations)

\* "Validate each locale against primary locale"
RECURSIVE validateLocales(_, _)
validateLocales(locales, primaryTranslations) ==
  IF locales = <<>> THEN <<>>
  ELSE LET locale == Head(locales).locale
           translations == Head(locales).units
           here == IF locale = primaryLocale THEN <<>>
                   ELSE missingFiles(locale, unitNames(primaryTranslations),
                                     unitNames(translations))
                        \o extraFiles(locale, unitNames(primaryTranslations),
                                      unitNames(translations))
                        \o checkKeys(locale, translations, primaryTranslations)
       IN here \o validateLocales(Tail(locales), primaryTranslations)

\* a variant of validateSchema that lets every store through
validateSchemaLenient(store) == [primaryFound |-> TRUE, schemaErrors |-> <<>>]

\* Transletta.validateSchema: throws when the primary locale is missing
\* or when schemaErrors is not empty
validateSchema(store) ==
  LET primaryTranslations == CacheGet(store, primaryLocale)
  IN IF ~primaryTranslations.found
     THEN [primaryFound |-> FALSE, schemaErrors |-> <<>>]
     ELSE [primaryFound |-> TRUE,
           schemaErrors |-> validateLocales(store, primaryTranslations.units)]

(***************************************************************************)
(* Input directories                                                       *)
(***************************************************************************)
File(name, content) == [name |-> <<name, "toml">>, isFile |-> TRUE, content |-> content]
Dir(name, dirFiles) == [name |-> name, isDirectory |-> TRUE, files |-> dirFiles]
\* entries every input directory holds and scan skips: a plain file, a
\* hidden directory and the output directory with an emitted bundle
Skipped ==
  << [name |-> "README.md", isDirectory |-> FALSE, files |-> <<>>],
     Dir("_drafts", <<File("home", Tbl(<<Ent("draft", Str(<<Lit("Draft")>>))>>))>>),
     Dir("generated", << [name |-> <<"en", "json">>, isFile |-> TRUE,
                          content |-> Tbl(<<>>)] >>) >>

Text(x) == Str(<<Lit(x)>>)

\* [references] tables of the unit `home`
HomeReferences ==
  { <<>>,
    <<Ent("b", Ref("@", <<"common">>))>>,
    <<Ent("b", Ref("@", <<"common", "buttons">>))>>,
    <<Ent("b", Ref("@", <<"common", "title">>))>>,
    <<Ent("hero", Ref("@", <<"common">>))>>,
    <<Ent("other", Ref("@", <<"common">>))>>,
    <<Ent("me", Ref("@", <<"home">>))>>,
    <<Ent("me", Ref("@", <<"home", "title">>)), Ent("b", Ref("@", <<"common">>))>>,
    <<Ent("b", Ref("@", <<"missing">>)), Ent("me", Ref("@", <<"home">>))>>,
    <<Ent("b", Ref("@", <<"common">>)), Ent("gone", Ref("@", <<"missing">>))>>,
    <<Ent("bad", Text("common"))>>,
    <<Ent("ui", Ref("@@", <<"web", "ui">>))>> }

\* content trees of the unit `home`
HomeBodies ==
  { \* no embedding: nested tables, repeated leaf names, a number, an array
    << Ent("title", Text("Home")),
       Ent("hero", Tbl(<<Ent("title", Text("Welcome")), Ent("count", Num)>>)),
       Ent("footer", Tbl(<<Ent("title", Str(<<Lit("Bye "), Par("name")>>)),
                           Ent("tags", Arr(<<Text("a"), Text("b")>>))>>)) >>,
    \* one embedding through alias b
    << Ent("title", Str(<<Emb(<<"b", "title">>)>>)),
       Ent("x", Text("Hello")) >>,
    \* embeddings through alias b, twice in one value, next to a parameter
    << Ent("cta", Str(<<Lit("Go "), Emb(<<"b", "login">>), Par("name"),
                        Emb(<<"b", "login">>)>>)),
       Ent("sub", Tbl(<<Ent("signup", Str(<<Emb(<<"b", "signup">>)>>))>>)) >>,
    \* a local table named like an alias
    << Ent("hero", Tbl(<<Ent("title", Text("Local"))>>)),
       Ent("x", Str(<<Emb(<<"hero", "title">>)>>)) >>,
    \* one side of a cross-unit cycle
    << Ent("x", Str(<<Emb(<<"other", "y">>)>>)),
       Ent("title", Text("T")) >>,
    \* local keys embedding each other and themselves
    << Ent("k1", Str(<<Emb(<<"k2">>)>>)),
       Ent("k2", Str(<<Emb(<<"k1">>)>>)),
       Ent("self", Str(<<Emb(<<"self">>)>>)),
       Ent("hero", Tbl(<<Ent("title", Text("W"))>>)),
       Ent("welcome", Str(<<Lit("W "), Emb(<<"hero", "title">>)>>)) >>,
    \* parameters, repeated, next to a local embedding
    << Ent("greet", Str(<<Lit("Hello "), Par("name"), Par("count"), Par("name")>>)),
       Ent("bye", Str(<<Par("count"), Par("who")>>)),
       Ent("e", Str(<<Emb(<<"greet">>), Par("last")>>)) >>,
    \* an embedding of the alias alone
    << Ent("x", Str(<<Emb(<<"b">>)>>)) >>,
    \* two missing local keys
    << Ent("a", Str(<<Emb(<<"nope">>)>>)),
       Ent("hero", Tbl(<<Ent("title", Text("W"))>>)),
       Ent("b2", Str(<<Emb(<<"hero", "missing">>)>>)),
       Ent("c", Str(<<Emb(<<"absent", "title">>)>>)) >>,
    \* a value of the neighbor that embeds a neighbor-local key
    << Ent("x", Str(<<Emb(<<"b", "buttons", "login">>)>>)),
       Ent("y", Str(<<Emb(<<"b", "hero", "title">>)>>)) >> }

HomeUnits == { <<Ent("references", Tbl(r))>> \o b : r \in HomeReferences \ {<<>>},
                                                     b \in HomeBodies }
             \cup HomeBodies

CommonUnits ==
  { \* plain values
    << Ent("title", Text("X")),
       Ent("login", Str(<<Lit("Don"), Apostrophe, Lit("t")>>)),
       Ent("buttons", Tbl(<<Ent("login", Text("Login")),
                            Ent("signup", Str(<<Lit("Sign Up "), Par("count")>>))>>)),
       Ent("hero", Tbl(<<Ent("title", Text("Common hero"))>>)) >>,
    \* values that embed a third unit and a local key
    << Ent("references", Tbl(<<Ent("c", Ref("@", <<"legal">>))>>)),
       Ent("title", Str(<<Emb(<<"c", "y">>)>>)),
       Ent("greeting", Text("Hi")),
       Ent("buttons", Tbl(<<Ent("login", Str(<<Emb(<<"greeting">>), Lit("!")>>)),
                            Ent("signup", Text("Sign Up"))>>)),
       Ent("hero", Tbl(<<Ent("title", Text("Common hero"))>>)) >>,
    \* the other side of the cross-unit cycle
    << Ent("references", Tbl(<<Ent("other", Ref("@", <<"home">>))>>)),
       Ent("y", Str(<<Emb(<<"other", "x">>)>>)),
       Ent("title", Text("X")),
       Ent("buttons", Tbl(<<Ent("login", Text("Login")),
                            Ent("signup", Text("Sign Up"))>>)),
       Ent("hero", Tbl(<<Ent("title", Text("Common hero"))>>)) >>,
    \* the other side of the cross-unit cycle, with an apostrophe in the text
    << Ent("references", Tbl(<<Ent("other", Ref("@", <<"home">>))>>)),
       Ent("y", Str(<<Lit("It"), Apostrophe, Lit("s "), Emb(<<"other", "x">>)>>)),
       Ent("title", Text("X")) >> }

LegalUnits ==
  { << Ent("y", Text("Z")) >>,
    \* local keys embedding each other and themselves
    << Ent("y", Text("Z")),
       Ent("k1", Str(<<Emb(<<"k2">>)>>)),
       Ent("k2", Str(<<Emb(<<"k1">>)>>)),
       Ent("self", Str(<<Lit("I am "), Emb(<<"self">>)>>)) >> }

\* a file that is not there, and a file toml.parse rejects
Absent == Undef
Malformed == [t |-> "malformed", v |-> <<>>]
Docs(units) == {Tbl(u) : u \in units}

\* a locale directory holding the given documents, absent ones left out
LocaleDir(locale, names, docs) ==
  Dir(locale,
      LET present == SelectSeq([i \in 1..Len(names) |-> i],
                               LAMBDA i : docs[i].t # "undef")
      IN [j \in 1..Len(present) |-> File(names[present[j]], docs[present[j]])])

\* one locale, units that reference and embed each other
ResolveDisks ==
  { <<LocaleDir("en", <<"common", "home", "legal">>, <<c, h, l>>)>> \o Skipped :
      c \in Docs(CommonUnits) \cup {Absent},
      h \in Docs(HomeUnits),
      l \in Docs(LegalUnits) \cup {Absent} }

\* documents of several shapes for the schema comparison
Hero(title, cta) == Ent("hero", Tbl(<<Ent("title", Text(title)), Ent("cta", Text(cta))>>))
HomeShape == <<Ent("title", Text("Home")), Hero("Welcome", "Go")>>
HomeTranslated == <<Ent("title", Text("Accueil")), Hero("Bienvenue", "Aller")>>
HomeLacksKey ==
  <<Ent("title", Text("Accueil")), Ent("hero", Tbl(<<Ent("title", Text("Bienvenue"))>>))>>
HomeExtraKey == HomeShape \o <<Ent("footer", Tbl(<<Ent("note", Text("Bye"))>>))>>
HomeFlatHero == <<Ent("title", Text("Accueil")), Ent("hero", Text("Bienvenue"))>>
HomeWithReferences ==
  <<Ent("references", Tbl(<<Ent("b", Ref("@", <<"common">>))>>))>> \o HomeShape
HomeWithArray ==
  HomeShape \o <<Ent("tags", Arr(<<Text("a")>>)), Ent("empty", Tbl(<<>>))>>
CommonShape == <<Ent("ok", Text("OK")), Ent("cancel", Text("Cancel"))>>
CommonLacksKey == <<Ent("ok", Text("D'accord"))>>
ExtraShape == <<Ent("only", Text("here"))>>

\* a primary locale en (or none), a locale fr and sometimes a locale de
SchemaDisks ==
  { (IF de = "none" THEN <<>>
     ELSE <<LocaleDir("de", <<"home">>,
                      <<IF de = "empty" THEN Absent ELSE Tbl(HomeTranslated)>>)>>)
    \o (IF en THEN <<LocaleDir("en", <<"common", "home">>, <<ec, eh>>)>> ELSE <<>>)
    \o <<LocaleDir("fr", <<"common", "extra", "home">>, <<fc, fx, fh>>)>>
    \o Skipped :
      de \in {"none", "empty", "home"},
      en \in BOOLEAN,
      ec \in {Absent, Tbl(CommonShape)},
      eh \in Docs({HomeShape, HomeExtraKey, HomeWithReferences, HomeWithArray}),
      fc \in {Absent, Tbl(CommonShape), Tbl(CommonLacksKey)},
      fx \in {Absent, Tbl(ExtraShape), Malformed},
      fh \in {Absent} \cup Docs({HomeShape, HomeTranslated, HomeLacksKey, HomeExtraKey,
                                 HomeFlatHero, HomeWithReferences, HomeWithArray}) }

\* a document with tables in tables
HomeDeep ==
  << Ent("title", Text("Home")),
     Ent("hero", Tbl(<<Ent("title", Text("Welcome")),
                       Ent("cta", Tbl(<<Ent("label", Text("Go"))>>))>>)) >>

\* the stores Translation.get is called on, and the keys it is called with:
\* dotted paths of one to three segments
GetDisks ==
  { <<LocaleDir("en", <<"common", "home">>, <<Tbl(CommonShape), Tbl(HomeDeep)>>)>>,
    <<LocaleDir("en", <<"common", "home">>, <<Tbl(CommonShape), Tbl(HomeShape)>>)>> }
Segments == {"hero", "title", "cta", "label", "nope"}
Keys ==
  {<<a>> : a \in Segments}
  \cup {<<a, b>> : a \in Segments, b \in Segments}
  \cup {<<a, b, c>> : a \in Segments, b \in Segments, c \in Segments}

\* a document with one embedding of a key nobody defines
HomeBroken == <<Ent("title", Text("Home")), Ent("x", Str(<<Emb(<<"nope">>)>>))>>

\* the contents the input directory goes through while it is being edited:
\* sound ones, two with a unit that does not resolve, one with a file that
\* does not parse, one whose locales disagree, one without the primary
\* locale, an empty one
EditedDisks ==
  { <<LocaleDir("en", <<"common", "home">>, <<Tbl(CommonShape), Tbl(HomeShape)>>)>>,
    <<LocaleDir("en", <<"common", "home">>, <<Tbl(CommonShape), Tbl(HomeExtraKey)>>)>>,
    <<LocaleDir("en", <<"common", "home">>, <<Tbl(CommonShape), Tbl(HomeShape)>>),
      LocaleDir("fr", <<"common", "home">>, <<Tbl(CommonShape), Tbl(HomeTranslated)>>)>>,
    <<LocaleDir("en", <<"common", "home">>, <<Tbl(CommonShape), Tbl(HomeBroken)>>)>>,
    <<LocaleDir("en", <<"common", "home">>, <<Tbl(CommonShape), Tbl(HomeBroken)>>),
      LocaleDir("fr", <<"common", "home">>, <<Tbl(CommonShape), Tbl(HomeShape)>>)>>,
    <<LocaleDir("en", <<"common", "home">>, <<Tbl(CommonShape), Malformed>>)>>,
    <<LocaleDir("en", <<"common", "home">>, <<Tbl(CommonShape), Tbl(HomeShape)>>),
      LocaleDir("fr", <<"home">>, <<Tbl(HomeLacksKey)>>)>>,
    <<LocaleDir("fr", <<"home">>, <<Tbl(HomeTranslated)>>)>>,
    <<>> }

(***************************************************************************)
(* The public operations                                                   *)
(***************************************************************************)
\* what the last operation did and gave back: fresh says whether it did its
\* work rather than answer from what the manager holds, phases lists the
\* manager and validation calls it made, in the order it made them, repeated
\* says whether it is an unforced compile that follows an unforced compile
\* that returned, with no other call between the two
Outcome(op, force, fresh, threw, result, diagnostics, schemaErrors, phases) ==
  [op |-> op, force |-> force, fresh |-> fresh, threw |-> threw, result |-> result,
   diagnostics |-> diagnostics, schemaErrors |-> schemaErrors, phases |-> phases,
   repeated |-> /\ op = "compile" /\ ~force
                /\ returned.op = "compile" /\ ~returned.force
                /\ returned.threw = "none"]

\* TranslationManager.scan(force)
Scan(force) ==
  \E r \in {scan(force, cache, files)} :
     /\ cache' = r.cache
     /\ returned' = Outcome("scan", force, r.read,
                            IF r.threw THEN "parse" ELSE "none", <<>>, <<>>, <<>>,
                            IF r.read THEN <<"scan">> ELSE <<>>)
     /\ UNCHANGED <<files, compilationResult, host>>

\* TranslationManager.compile({ force })
Compile(force) ==
  \E r \in {compile(force, cache, compilationResult)} :
     /\ compilationResult' = r.result
     /\ returned' = Outcome("compile", force, r.pass, r.threw,
                            r.result, r.diagnostics, <<>>,
                            IF r.pass THEN <<"resolve">> ELSE <<>>)
     /\ UNCHANGED <<files, cache, host>>

\* Transletta.compile() from the return of its scan on: validateSchema,
\* translations.compile({force: true}), the diagnostics check; what it
\* gives back and the collection it leaves
afterScan(scanThrew, store, current) ==
  LET done(threw, result, diagnostics, schemaErrors, phases, left) ==
        [threw |-> threw, result |-> result, diagnostics |-> diagnostics,
         schemaErrors |-> schemaErrors, phases |-> phases, compilationResult |-> left]
      resolved(r) ==
        IF r.threw # "none"
        THEN done(r.threw, <<>>, <<>>, <<>>, <<"scan", "validate", "resolve">>, r.result)
        ELSE IF Len(r.diagnostics) > 0
        THEN done("diagnostics", <<>>, r.diagnostics, <<>>,
                  <<"scan", "validate", "resolve">>, <<>>)
        ELSE done("none", r.result, <<>>, <<>>, <<"scan", "validate", "resolve">>,
                  r.result)
      validated(schema) ==
        IF ~schema.primaryFound
        THEN done("primary", <<>>, <<>>, <<>>, <<"scan", "validate">>, current)
        ELSE IF Len(schema.schemaErrors) > 0
        THEN done("schema", <<>>, <<>>, schema.schemaErrors, <<"scan", "validate">>,
                  current)
        ELSE resolved(compile(TRUE, store, current))
  IN IF scanThrew THEN done("parse", <<>>, <<>>, <<>>, <<"scan">>, current)
     ELSE validated(validateSchema(store))

\* Transletta.compile()
TranslettaCompile ==
  \E scanned \in {scan(TRUE, cache, files)} :
  \E o \in {afterScan(scanned.threw, scanned.cache, compilationResult)} :
     /\ ~isWorkspaceMode
     /\ cache' = scanned.cache
     /\ compilationResult' = o.compilationResult
     /\ returned' = Outcome("build", TRUE, TRUE, o.threw, o.result, o.diagnostics,
                            o.schemaErrors, o.phases)
     /\ UNCHANGED <<files, host>>

\* TranslationManager.clear() (Transletta.cleanup)
Clear ==
  /\ cache' = <<>>
  /\ compilationResult' = <<>>
  /\ returned' = Outcome("clear", FALSE, FALSE, "none", <<>>, <<>>, <<>>, <<>>)
  /\ UNCHANGED <<files, host>>

\* no watcher and no plugin around the instance
NoHost ==
  [mode |-> "none", configured |-> TRUE, enableHMR |-> TRUE, started |-> FALSE,
   watching |-> FALSE, stopped |-> FALSE, running |-> <<>>, timer |-> -1,
   pendingFiles |-> FALSE, isCompiling |-> FALSE, emitted |-> <<>>,
   since |-> 0, events |-> 0, stale |-> FALSE, last |-> "none"]

Constructed ==
  /\ cache = <<>>
  /\ compilationResult = <<>>
  /\ host = NoHost
  /\ returned = Outcome("none", FALSE, FALSE, "none", <<>>, <<>>, <<>>, <<>>)

Next ==
  \/ \E force \in BOOLEAN : Scan(force)
  \/ \E force \in BOOLEAN : Compile(force)
  \/ TranslettaCompile
  \/ Clear

Init == files \in ResolveDisks \cup SchemaDisks /\ Constructed
Spec == Init /\ [][Next]_vars

\* the operations over the stores of one locale
InitResolve == files \in ResolveDisks /\ Constructed
SpecResolve == InitResolve /\ [][Next]_vars

\* the operations over the stores of several locales
InitSchema == files \in SchemaDisks /\ Constructed
SpecSchema == InitSchema /\ [][Next]_vars

\* somebody edits the files of the input directory (fs.watch reports it,
\* the manager is not told)
Edit ==
  /\ files' \in {d \o Skipped : d \in EditedDisks} \ {files}
  /\ UNCHANGED <<cache, compilationResult, returned, host>>

NextEdit == Next \/ Edit

\* Translation.get(key) on a unit of the store
Get ==
  \E i \in 1..Len(cache) : \E j \in 1..Len(cache[i].units) : \E key \in Keys :
  \E r \in {get(cache[i].units[j], key)} :
     /\ returned' =
          [op |-> "get", force |-> FALSE, fresh |-> FALSE,
           threw |-> IF r.thrown THEN "diagnostics" ELSE "none",
           result |-> <<>>,
           diagnostics |-> IF r.thrown
                           THEN <<Diag(cache[i].units[j], "path-not-found",
                                       << <<r.seg>> >>)>>
                           ELSE <<>>,
           schemaErrors |-> <<>>, phases |-> <<>>, repeated |-> FALSE,
           this |-> cache[i].units[j], key |-> key, val |-> r.val]
     /\ UNCHANGED <<files, cache, compilationResult, host>>

NextGet == Scan(TRUE) \/ Get

\* Translation.get on the units of a scanned store
InitGet == files \in {d \o Skipped : d \in GetDisks} /\ Constructed
SpecGet == InitGet /\ [][NextGet]_vars

\* the operations while the input directory is being edited
InitEdit == files \in {d \o Skipped : d \in EditedDisks} /\ Constructed
SpecEdit == InitEdit /\ [][NextEdit]_vars

(***************************************************************************)
(* transletta sync                                                         *)
(***************************************************************************)
\* mergeObjects(primary, target) of mergeTranslationData: the copy of
\* target, then one assignment per entry of primary
RECURSIVE mergeInto(_, _, _)
RECURSIVE mergeObjects(_, _)
mergeInto(merged, primary, target) ==
  IF primary = <<>> THEN merged
  ELSE LET key == Head(primary).key
           value == Head(primary).val
           mine == Lookup(target, key)
       IN mergeInto(IF value.t = "tbl"
                    THEN SetKey(merged, key,
                                IF mine.t = "tbl" THEN Tbl(mergeObjects(value.v, mine.v))
                                ELSE value)
                    ELSE IF mine.t = "undef" THEN SetKey(merged, key, value)
                    ELSE merged,
                    Tail(primary), target)
mergeObjects(primary, target) == mergeInto(target, primary, target)

mergeTranslationData(primaryData, targetData) == mergeObjects(primaryData, targetData)

\* what toml.parse reads from the text stringify(data) writes: in each
\* table the keys with plain values come before the sub-tables
RECURSIVE stringified(_)
stringified(data) ==
  LET plain == SelectSeq(data, LAMBDA e : e.val.t # "tbl")
      tables == SelectSeq(data, LAMBDA e : e.val.t = "tbl")
  IN plain \o [i \in 1..Len(tables) |->
                 Ent(tables[i].key, Tbl(stringified(tables[i].val.v)))]

\* readdir of a directory of the input directory, by name
dirFiles(disk, name) ==
  IF \E k \in 1..Len(disk) : disk[k].isDirectory /\ disk[k].name = name
  THEN disk[CHOOSE k \in 1..Len(disk) : disk[k].isDirectory /\ disk[k].name = name].files
  ELSE <<>>
fileOf(localeFiles, fname) ==
  IF \E k \in 1..Len(localeFiles) : localeFiles[k].name = fname
  THEN localeFiles[CHOOSE k \in 1..Len(localeFiles) : localeFiles[k].name = fname].content
  ELSE Undef

\* writeFile(targetPath, mergedContent)
writeFile(localeFiles, fname, content) ==
  IF \E k \in 1..Len(localeFiles) : localeFiles[k].name = fname
  THEN [k \in 1..Len(localeFiles) |->
          IF localeFiles[k].name = fname
          THEN [localeFiles[k] EXCEPT !.content = content] ELSE localeFiles[k]]
  ELSE Append(localeFiles, [name |-> fname, isFile |-> TRUE, content |-> content])

\* "Smart merge for each file" of one locale: parse of the primary file
\* throws on a malformed document, an unreadable target counts as empty
RECURSIVE syncFiles(_, _, _)
syncFiles(tomlFiles, primaryFiles, localeFiles) ==
  IF tomlFiles = <<>> THEN [threw |-> FALSE, files |-> localeFiles]
  ELSE LET file == Head(tomlFiles)
           primaryData == fileOf(primaryFiles, file)
           target == fileOf(localeFiles, file)
           targetData == IF target.t = "tbl" THEN target.v ELSE <<>>
       IN IF primaryData.t # "tbl" THEN [threw |-> TRUE, files |-> localeFiles]
          ELSE syncFiles(Tail(tomlFiles), primaryFiles,
                         writeFile(localeFiles, file,
                                   Tbl(stringified(mergeTranslationData(primaryData.v, targetData)))))

\* the body of the loop over localeDirs for one locale: "Remove extra
\* files", then the merge of each file of the primary locale
syncLocale(primaryFiles, localeFiles) ==
  LET names == [k \in 1..Len(primaryFiles) |-> primaryFiles[k].name]
      tomlFiles == SelectSeq(names, LAMBDA n : endsWithToml(n))
      kept == SelectSeq(localeFiles,
                        LAMBDA f : ~endsWithToml(f.name) \/ Contains(tomlFiles, f.name))
  IN syncFiles(tomlFiles, primaryFiles, kept)

\* the loop over the entries of the input directory; a throw leaves the
\* locales written so far as they were written
RECURSIVE syncEntries(_, _, _)
syncEntries(disk, k, primaryFiles) ==
  IF k > Len(disk) THEN [threw |-> FALSE, files |-> disk]
  ELSE IF \/ ~disk[k].isDirectory
          \/ disk[k].name \in HiddenNames
          \/ disk[k].name = outputDirectory
          \/ disk[k].name = primaryLocale
  THEN syncEntries(disk, k + 1, primaryFiles)
  ELSE LET synced(r) ==
             IF r.threw
             THEN [threw |-> TRUE, files |-> [disk EXCEPT ![k].files = r.files]]
             ELSE syncEntries([disk EXCEPT ![k].files = r.files], k + 1, primaryFiles)
       IN synced(syncLocale(primaryFiles, disk[k].files))

\* syncCommand(transletta): throws when the directory of the primary
\* locale cannot be read
syncCommand(disk) ==
  IF ~\E k \in 1..Len(disk) : disk[k].isDirectory /\ disk[k].name = primaryLocale
  THEN [threw |-> TRUE, files |-> disk]
  ELSE syncEntries(disk, 1, dirFiles(disk, primaryLocale))

\* transletta sync
Sync ==
  \E r \in {syncCommand(files)} :
     /\ files' = r.files
     /\ returned' = [op |-> "sync", force |-> FALSE, fresh |-> TRUE,
                     threw |-> IF r.threw THEN "sync" ELSE "none",
                     result |-> <<>>, diagnostics |-> <<>>, schemaErrors |-> <<>>,
                     phases |-> <<>>, repeated |-> FALSE, before |-> files]
     /\ UNCHANGED <<cache, compilationResult, host>>

NextSync == Sync \/ TranslettaCompile

\* transletta sync and transletta build over input directories whose
\* locales agree or disagree with the primary locale
InitSync == files \in SchemaDisks /\ Constructed
SpecSync == InitSync /\ [][NextSync]_vars

(***************************************************************************)
(* The callers that drive one instance: watch-mode build, the Next.js      *)
(* development watcher, the Vite plugin.  A Transletta.compile they start  *)
(* runs in steps, one per continuation between two awaits of its scan;     *)
(* the last read of the scan, validateSchema and translations.compile run  *)
(* in one step (no await that waits for I/O lies between them).  Reading   *)
(* one locale directory with its files is taken as one step.               *)
(***************************************************************************)
\* setTimeout(..., 300), in units of 100 ms
Debounce == 3

\* invocations of Transletta.compile that are let in at a time
MaxInFlight == 2

\* the contents the watched input directory goes through: two locales that
\* agree, and the second locale lacking a key
WatchedDisks ==
  { <<LocaleDir("en", <<"home">>, <<Tbl(HomeShape)>>),
      LocaleDir("fr", <<"home">>, <<Tbl(HomeTranslated)>>)>>,
    <<LocaleDir("en", <<"home">>, <<Tbl(HomeShape)>>),
      LocaleDir("fr", <<"home">>, <<Tbl(HomeLacksKey)>>)>> }

\* localeTranslations.set(translation.name, translation) for each unit read
RECURSIVE setAll(_, _)
setAll(localeTranslations, units) ==
  IF units = <<>> THEN localeTranslations
  ELSE setAll(IF \E i \in 1..Len(localeTranslations) :
                   localeTranslations[i].name = Head(units).name
              THEN [i \in 1..Len(localeTranslations) |->
                      IF localeTranslations[i].name = Head(units).name
                      THEN Head(units) ELSE localeTranslations[i]]
              ELSE Append(localeTranslations, Head(units)),
              Tail(units))

\* this.cache.upsert(locale, () => new Collection()), then the files loop
upsert(store, locale, units) ==
  IF \E i \in 1..Len(store) : store[i].locale = locale
  THEN [i \in 1..Len(store) |->
          IF store[i].locale = locale
          THEN [locale |-> locale, units |-> setAll(store[i].units, units)]
          ELSE store[i]]
  ELSE Append(store, [locale |-> locale, units |-> units])

\* the locale directories readdir(rootDir) lists, by name
localeNames(disk) ==
  LET dirs == SelectSeq(disk, LAMBDA entry :
                 /\ entry.isDirectory
                 /\ entry.name \notin HiddenNames
                 /\ entry.name # outputDirectory)
  IN [i \in 1..Len(dirs) |-> dirs[i].name]

\* an invocation of Transletta.compile: where it is, the locale directories
\* its scan has still to read and those it has read, and who started it
Invocation(pc, by) == [pc |-> pc, todo |-> <<>>, scanned |-> <<>>, by |-> by]

Running == 1..Len(host.running)
InFlight == {i \in Running : host.running[i].pc \in {"readdir", "locale"}}
Without(seq, i) == SubSeq(seq, 1, i - 1) \o SubSeq(seq, i + 1, Len(seq))

\* a handler that leaves the flag set when it ends without an output
leftAfterSuccessOnly(h, i, succeeded) ==
  [h EXCEPT !.running = Without(h.running, i),
            !.isCompiling = IF h.running[i].by = "hot" /\ succeeded THEN FALSE ELSE @,
            !.watching = IF h.running[i].by = "initial"
                         THEN h.mode # "next" \/ succeeded ELSE @]

\* the caller's handler is left: finally { isCompiling = false } of the
\* Vite plugin; the watcher is set up after the initial build (the Next.js
\* watcher only when that build succeeded)
left(h, i, succeeded) ==
  [h EXCEPT !.running = Without(h.running, i),
            !.isCompiling = IF h.running[i].by = "hot" THEN FALSE ELSE @,
            !.watching = IF h.running[i].by = "initial"
                         THEN h.mode # "next" \/ succeeded ELSE @]

\* what an invocation gives back, with the locale directories its scan read
\* and the locales of the store its validation was given
BuildOutcome(o, scanned, store) ==
  [op |-> "build", force |-> TRUE, fresh |-> TRUE, threw |-> o.threw,
   result |-> o.result, diagnostics |-> o.diagnostics,
   schemaErrors |-> o.schemaErrors, phases |-> o.phases, repeated |-> FALSE,
   scanned |-> scanned,
   observed |-> [i \in 1..Len(store) |-> store[i].locale]]

\* the step that ends the scan of invocation i over `store`: validation,
\* resolution and the return or throw of Transletta.compile
Finish(i, scanThrew, store, scanned) ==
  \E o \in {afterScan(scanThrew, store, compilationResult)} :
     /\ cache' = store
     /\ compilationResult' = o.compilationResult
     /\ returned' = BuildOutcome(o, scanned, store)
     /\ host' = IF o.threw = "none"
                THEN [host EXCEPT !.running[i].pc = "emit",
                                  !.running[i].todo = <<>>,
                                  !.running[i].scanned = scanned]
                ELSE left(host, i, FALSE)
     /\ UNCHANGED files

\* Transletta.compile() up to the first await of scan(true): the store is
\* cleared and readdir(rootDir) is issued
Begin(h, by) ==
  /\ ~isWorkspaceMode
  /\ Len(h.running) < MaxInFlight
  /\ cache' = <<>>
  /\ host' = [h EXCEPT !.running = Append(@, Invocation("readdir", by)),
                       !.stale = FALSE]
  /\ UNCHANGED <<files, compilationResult, returned>>

\* readdir(rootDir) has answered
Readdir(i) ==
  /\ host.running[i].pc = "readdir"
  /\ IF localeNames(files) = <<>>
     THEN Finish(i, FALSE, cache, <<>>)
     ELSE /\ host' = [host EXCEPT !.running[i].pc = "locale",
                                  !.running[i].todo = localeNames(files)]
          /\ UNCHANGED <<files, cache, compilationResult, returned>>

\* readdir(localeDir) and the readFile of each of its files have answered
ReadLocale(i) ==
  /\ host.running[i].pc = "locale"
  /\ \E locale \in {Head(host.running[i].todo)} :
     \E scanned \in {Append(host.running[i].scanned, locale)} :
       IF ~\E k \in 1..Len(files) : files[k].isDirectory /\ files[k].name = locale
       THEN Finish(i, TRUE, cache, scanned)
       ELSE \E r \in {scanFiles(locale,
                                files[CHOOSE k \in 1..Len(files) :
                                        files[k].isDirectory /\ files[k].name = locale].files,
                                <<>>)} :
            \E store \in {upsert(cache, locale, r.units)} :
              IF r.threw \/ Len(host.running[i].todo) = 1
              THEN Finish(i, r.threw, store, scanned)
              ELSE /\ cache' = store
                   /\ host' = [host EXCEPT !.running[i].todo = Tail(@),
                                           !.running[i].scanned = scanned]
                   /\ UNCHANGED <<files, compilationResult, returned>>

\* transletta.emit(resource): the files written hold what the collection
\* holds when they are written
Emit(i) ==
  /\ host.running[i].pc = "emit"
  /\ host' = IF host.running[i].by = "hot"
             THEN [host EXCEPT !.emitted = compilationResult,
                               !.running[i].pc = "notify"]
             ELSE [left(host, i, TRUE) EXCEPT !.emitted = compilationResult]
  /\ UNCHANGED <<files, cache, compilationResult, returned>>

\* const instance = await initTransletta() has answered in the Vite plugin:
\* without a configuration the handler returns, else instance.compile()
\* runs up to the first await of its scan
Configured(i) ==
  /\ host.running[i].pc = "init"
  /\ IF ~host.configured
     THEN host' = left(host, i, FALSE) /\ UNCHANGED cache
     ELSE /\ cache' = <<>>
          /\ host' = [host EXCEPT !.running[i].pc = "readdir", !.stale = FALSE]
  /\ UNCHANGED <<files, compilationResult, returned>>

\* server.ws.send(...) after findTranslationDependentModules has answered
Notify(i) ==
  /\ host.running[i].pc = "notify"
  /\ host' = left(host, i, TRUE)
  /\ UNCHANGED <<files, cache, compilationResult, returned>>

\* the initial build: await performBuild() of buildCommand, the first
\* compile of setupDevelopmentWatcher, the compile of configureServer
InitialBuild ==
  /\ host.mode # "none"
  /\ ~host.started
  /\ IF host.mode = "vite"
     THEN /\ host' = [host EXCEPT !.started = TRUE,
                                  !.running = Append(@, Invocation("init", "initial"))]
          /\ UNCHANGED <<files, cache, compilationResult, returned>>
     ELSE Begin([host EXCEPT !.started = TRUE], "initial")

\* a callback that leaves a timer that is already set as it is
onChangeKeepsTimer(h, kind) ==
  IF ~h.watching \/ h.stopped THEN h
  ELSE IF h.mode = "watch"
  THEN IF kind = "toml"
       THEN [h EXCEPT !.timer = IF h.timer >= 0 THEN h.timer ELSE Debounce, !.since = 0,
                      !.events = IF h.timer >= 0 THEN (IF @ < 2 THEN @ + 1 ELSE 2) ELSE 1]
       ELSE h
  ELSE IF h.mode = "next"
  THEN IF kind \in {"toml", "output"}
       THEN [h EXCEPT !.pendingFiles = TRUE, !.timer = IF h.timer >= 0 THEN h.timer ELSE Debounce, !.since = 0,
                      !.events = IF h.timer >= 0 THEN (IF @ < 2 THEN @ + 1 ELSE 2) ELSE 1]
       ELSE h
  ELSE IF ~h.enableHMR \/ kind \notin {"toml", "output"} \/ h.isCompiling THEN h
  ELSE [h EXCEPT !.isCompiling = TRUE,
                 !.running = Append(@, Invocation("init", "hot"))]

\* what the watcher callback of the caller does with an event for a file of
\* one kind: a translation file, another file, a .toml file under the
\* output directory
onChange(h, kind) ==
  IF ~h.watching \/ h.stopped THEN h
  ELSE IF h.mode = "watch"
  THEN IF kind = "toml"
       THEN [h EXCEPT !.timer = Debounce, !.since = 0,
                      !.events = IF h.timer >= 0 THEN (IF @ < 2 THEN @ + 1 ELSE 2) ELSE 1]
       ELSE h
  ELSE IF h.mode = "next"
  THEN IF kind \in {"toml", "output"}
       THEN [h EXCEPT !.pendingFiles = TRUE, !.timer = Debounce, !.since = 0,
                      !.events = IF h.timer >= 0 THEN (IF @ < 2 THEN @ + 1 ELSE 2) ELSE 1]
       ELSE h
  ELSE IF ~h.enableHMR \/ kind \notin {"toml", "output"} \/ h.isCompiling THEN h
  ELSE [h EXCEPT !.isCompiling = TRUE,
                 !.running = Append(@, Invocation("init", "hot"))]

\* a file changes below the input directory and the watcher reports it
Change ==
  \E kind \in {"toml", "other", "output"} :
  \E disk \in WatchedDisks :
     /\ host.mode # "none"
     /\ kind = "toml" => disk \o Skipped # files
     /\ files' = IF kind = "toml" THEN disk \o Skipped ELSE files
     /\ host' = [onChange(host, kind) EXCEPT
                   !.stale = @ \/ kind = "toml",
                   !.last = kind]
     /\ UNCHANGED <<cache, compilationResult, returned>>

\* 100 ms pass while a rebuild is scheduled
Tick ==
  /\ host.timer > 0
  /\ host' = [host EXCEPT !.timer = @ - 1, !.since = @ + 1]
  /\ UNCHANGED <<files, cache, compilationResult, returned>>

\* the callback of setTimeout runs: performBuild() of buildCommand, not
\* awaited; in the Next.js watcher the compile when pendingFiles.size > 0
Fire ==
  /\ host.timer = 0
  /\ IF host.mode = "next" /\ ~host.pendingFiles
     THEN /\ host' = [host EXCEPT !.timer = -1]
          /\ UNCHANGED <<files, cache, compilationResult, returned>>
     ELSE Begin([host EXCEPT !.timer = -1, !.pendingFiles = FALSE], "timer")

\* cleanup on SIGINT or SIGTERM: watcher.close() and clearTimeout
Stop ==
  /\ host.mode = "watch"
  /\ host.watching
  /\ ~host.stopped
  /\ host' = [host EXCEPT !.stopped = TRUE, !.timer = -1]
  /\ UNCHANGED <<files, cache, compilationResult, returned>>

NextWatch ==
  \/ InitialBuild
  \/ Change
  \/ Tick
  \/ Fire
  \/ Stop
  \/ \E i \in Running : Readdir(i)
  \/ \E i \in Running : ReadLocale(i)
  \/ \E i \in Running : Emit(i)

\* transletta build --watch and the Next.js development watcher
InitWatch ==
  /\ files \in {d \o Skipped : d \in WatchedDisks}
  /\ cache = <<>>
  /\ compilationResult = <<>>
  /\ returned = Outcome("none", FALSE, FALSE, "none", <<>>, <<>>, <<>>, <<>>)
  /\ \E mode \in {"watch", "next"} : host = [NoHost EXCEPT !.mode = mode]
SpecWatch == InitWatch /\ [][NextWatch]_vars

(***************************************************************************)
(* Vocabulary of the properties: what documents and outputs say,           *)
(* independently of how serializeWithContext computes it                   *)
(***************************************************************************)
NextVite ==
  \/ InitialBuild
  \/ Change
  \/ \E i \in Running : Configured(i)
  \/ \E i \in Running : Readdir(i)
  \/ \E i \in Running : ReadLocale(i)
  \/ \E i \in Running : Emit(i)
  \/ \E i \in Running : Notify(i)

\* the Vite plugin in a development server, with or without a configuration
\* to load, with or without the option enableHMR
InitVite ==
  /\ files \in {d \o Skipped : d \in WatchedDisks}
  /\ cache = <<>>
  /\ compilationResult = <<>>
  /\ returned = Outcome("none", FALSE, FALSE, "none", <<>>, <<>>, <<>>, <<>>)
  /\ \E configured, enableHMR \in BOOLEAN :
       host = [NoHost EXCEPT !.mode = "vite", !.watching = TRUE,
                             !.configured = configured, !.enableHMR = enableHMR]
SpecVite == InitVite /\ [][NextVite]_vars

\* the event loop runs the continuation of an await once its promise has
\* settled, and the file system answers every request; nothing makes a
\* file change.  The step that reads a locale directory is enabled exactly
\* while an invocation is at it, so its weak fairness is written with that
\* state predicate in the place of ENABLED.
Reading == \E i \in Running : host.running[i].pc = "locale"
ReadsOn == []<>~Reading \/ []<><<\E i \in Running : ReadLocale(i)>>_vars
Settles ==
  /\ WF_vars(InitialBuild)
  /\ WF_vars(\E i \in Running : Configured(i))
  /\ WF_vars(\E i \in Running : Readdir(i))
  /\ ReadsOn
  /\ WF_vars(\E i \in Running : Emit(i))
  /\ WF_vars(\E i \in Running : Notify(i))

\* a development server with a configuration and with enableHMR
InitViteLive == InitVite /\ host.configured /\ host.enableHMR
SpecViteLive == InitViteLive /\ [][NextVite]_vars /\ Settles

Range(seq) == {seq[i] : i \in 1..Len(seq)}
Last(seq) == seq[Len(seq)]

\* the units of the store
Units == UNION {Range(cache[i].units) : i \in 1..Len(cache)}

\* TranslationManager.compile has just run a resolution pass and returned
FreshPass == returned.op = "compile" /\ returned.fresh /\ returned.threw = "none"

\* the entries of the returned output that belong to unit u
EmittedFor(u) ==
  UNION {{e \in Range(returned.result[i].translations) : e.metadata.name = u.name} :
           i \in {j \in 1..Len(returned.result) : returned.result[j].locale = u.locale}}
IsEmitted(u) == EmittedFor(u) # {}
EmittedContent(u) == (CHOOSE e \in EmittedFor(u) : TRUE).content
EmittedParameters(u) == (CHOOSE e \in EmittedFor(u) : TRUE).parameters

\* the value a tree holds at a key path
RECURSIVE ValueAt(_, _)
ValueAt(val, path) ==
  IF path = <<>> THEN val
  ELSE IF val.t = "tbl" /\ \E i \in 1..Len(val.v) : val.v[i].key = Head(path)
  THEN ValueAt(val.v[CHOOSE i \in 1..Len(val.v) : val.v[i].key = Head(path)].val,
               Tail(path))
  ELSE Undef

Doc(u) == Tbl(u.data)
Body(u) == Tbl(SelectSeq(u.data, LAMBDA e : e.key # "references"))

\* key paths of the string leaves of a tree (array items by their index)
RECURSIVE StringLeafPaths(_)
StringLeafPaths(val) ==
  UNION {IF Entries(val)[i].val.t = "str" THEN {<<Entries(val)[i].key>>}
         ELSE {<<Entries(val)[i].key>> \o q : q \in StringLeafPaths(Entries(val)[i].val)} :
           i \in 1..Len(Entries(val))}
LeafAt(u, lp) == Prop(IF Len(lp) > 1 THEN ValueAt(Body(u), SubSeq(lp, 1, Len(lp) - 1))
                      ELSE Body(u), Last(lp))
IsLeafPath(val, lp) == lp \in StringLeafPaths(val)

\* the string leaves whose key no other string leaf of the unit bears: the
\* flat output holds their value under that key
UniqueLeafPaths(u) ==
  {lp \in StringLeafPaths(Body(u)) :
     \A lq \in StringLeafPaths(Body(u)) : Last(lq) = Last(lp) => lq = lp}
EmittedLeaf(u, lp) == ValueAt(Tbl(EmittedContent(u)), <<Last(lp)>>)

HasEmbedding(toks) == \E i \in 1..Len(toks) : toks[i].k = "emb"
EmbeddingsOf(u) ==
  UNION {{LeafAt(u, lp).v[i].p : i \in {j \in 1..Len(LeafAt(u, lp).v) :
                                          LeafAt(u, lp).v[j].k = "emb"}} :
           lp \in StringLeafPaths(Body(u))}

\* the [references] table as declared
Declared(u) ==
  LET r == ValueAt(Doc(u), <<"references">>) IN IF r.t = "tbl" THEN r.v ELSE <<>>
Aliases(u) == {Declared(u)[i].key : i \in 1..Len(Declared(u))}
Target(u, alias) == ValueAt(Doc(u), <<"references", alias>>).v[1].p
TargetsUnit(u, alias, name) ==
  /\ Target(u, alias)[1] = "@"
  /\ Len(Target(u, alias)) > 1
  /\ <<Target(u, alias)[2]>> = name
TargetUnit(u, alias) ==
  CHOOSE b \in Units : b.locale = u.locale /\ TargetsUnit(u, alias, b.name)
TargetPath(u, alias) == SubSeq(Target(u, alias), 3, Len(Target(u, alias)))

\* every alias is bound to '@B' or '@B.p', B a different unit of the locale
ReferencesValid(u) ==
  \A a \in Aliases(u) :
    /\ ValueAt(Doc(u), <<"references", a>>).t = "str"
    /\ ValueAt(Doc(u), <<"references", a>>).v[1].k = "ref"
    /\ \E b \in Units : b.locale = u.locale /\ b.name # u.name /\ TargetsUnit(u, a, b.name)

\* what an embedding path stands for in unit u, by the lookup order
ThroughAlias(u, path) == Head(path) \in Aliases(u)
Owner(u, path) == IF ThroughAlias(u, path) THEN TargetUnit(u, Head(path)) ELSE u
Meaning(u, path) ==
  IF ThroughAlias(u, path)
  THEN ValueAt(Doc(TargetUnit(u, Head(path))), TargetPath(u, Head(path)) \o Tail(path))
  ELSE ValueAt(Doc(u), path)

\* every embedding of toks stands for a string, down to `depth` fetches
RECURSIVE Plain(_, _, _)
Plain(u, toks, depth) ==
  IF depth = 0 THEN ~HasEmbedding(toks)
  ELSE /\ ReferencesValid(u)
       /\ \A i \in 1..Len(toks) : toks[i].k = "emb" =>
            /\ ThroughAlias(u, toks[i].p) => Len(toks[i].p) > 1
            /\ Meaning(u, toks[i].p).t = "str"
            /\ Plain(Owner(u, toks[i].p), Meaning(u, toks[i].p).v, depth - 1)

\* toks with every embedding replaced by what it stands for, the embeddings
\* of a fetched value read in the context of the unit it was fetched from
RECURSIVE Expand(_, _, _)
Expand(u, toks, depth) ==
  IF toks = <<>> THEN <<>>
  ELSE (IF Head(toks).k = "emb" /\ depth > 0
        THEN Expand(Owner(u, Head(toks).p), Meaning(u, Head(toks).p).v, depth - 1)
        ELSE <<Head(toks)>>)
       \o Expand(u, Tail(toks), depth)

AllLeaves(u, P(_)) == \A lp \in StringLeafPaths(Body(u)) : P(LeafAt(u, lp).v)
OnlyThroughAliases(u) == \A path \in EmbeddingsOf(u) : ThroughAlias(u, path)

\* u is emitted, and the output holds leaf by leaf the expansion to `depth`
EmittedExpanded(u, depth) ==
  /\ IsEmitted(u)
  /\ \A lp \in UniqueLeafPaths(u) :
       EmittedLeaf(u, lp) = Str(Expand(u, LeafAt(u, lp).v, depth))

(***************************************************************************)
(* C1 - C3: embeddings through aliases, lookup order, nested embeddings    *)
(***************************************************************************)
\* the case of C1: aliases bound to other units of the locale, every
\* embedding {@a.s} goes through a declared alias, and the key path it
\* names holds a string in the referenced unit (a string with embeddings of
\* its own is the case of C3)
C1_Case(u) ==
  /\ Aliases(u) # {}
  /\ ReferencesValid(u)
  /\ OnlyThroughAliases(u)
  /\ AllLeaves(u, LAMBDA toks : Plain(u, toks, 1))

C2_Case(u) ==
  /\ ReferencesValid(u)
  /\ AllLeaves(u, LAMBDA toks : Plain(u, toks, 1))

C3_Case(u) ==
  /\ Aliases(u) # {}
  /\ OnlyThroughAliases(u)
  /\ AllLeaves(u, LAMBDA toks : Plain(u, toks, 2))
  /\ ~AllLeaves(u, LAMBDA toks : Plain(u, toks, 1))

\* C3 (as claimed): the embeddings of a value fetched from a referenced
\* unit B are resolved against B's own aliases and B's own local keys, so a
\* chain A -> B -> C resolves to the value of C.
C3_NestedInTargetContext ==
  FreshPass => \A u \in Units : C3_Case(u) => EmittedExpanded(u, 2)

\* witness of the case of C3: a pass over a store where a unit embeds,
\* through an alias, a value that itself embeds a plain string
C3_CaseReached == FreshPass /\ \E u \in Units : C3_Case(u)

(***************************************************************************)
(* C4 - C6: cycles, termination, self-reference                            *)
(***************************************************************************)
Diagnostics == Range(returned.diagnostics)
Id(u) == <<u.locale>> \o u.name

\* the case of C4: a and b bind `other` to each other, and each has a value
\* that embeds through `other` the mutually embedding value of the other
C4_Case(a, b) ==
  /\ a.locale = b.locale /\ a.name # b.name
  /\ Aliases(a) = {"other"} /\ TargetsUnit(a, "other", b.name)
  /\ Aliases(b) = {"other"} /\ TargetsUnit(b, "other", a.name)
  /\ \E pa \in EmbeddingsOf(a), pb \in EmbeddingsOf(b) :
       /\ Head(pa) = "other" /\ Head(pb) = "other"
       /\ Meaning(a, pa).t = "str" /\ Contains(Meaning(a, pa).v, Emb(pb))
       /\ Meaning(b, pb).t = "str" /\ Contains(Meaning(b, pb).v, Emb(pa))

\* C4 (as claimed): one pass over two units that embed each other through
\* `other` yields one diagnostic for each of them, a circular-reference
\* message with the chain A -> B -> A in traversal order.
C4_CycleReported ==
  FreshPass => \A a, b \in Units : C4_Case(a, b) =>
    /\ Cardinality({i \in 1..Len(returned.diagnostics) :
                      returned.diagnostics[i].path = a.path}) = 1
    /\ \A d \in Diagnostics : d.path = a.path =>
         /\ d.kind = "circular-reference"
         /\ d.args = <<Id(a), Id(b), Id(a)>>

\* the embeddings of toks fetch local values that embed again
LocalLoop(u) ==
  /\ Aliases(u) = {}
  /\ \E path \in EmbeddingsOf(u) :
       /\ Meaning(u, path).t = "str"
       /\ HasEmbedding(Meaning(u, path).v)
LocalKeysExist(u) ==
  /\ Aliases(u) = {}
  /\ \A path \in EmbeddingsOf(u) : Meaning(u, path).t # "undef"

\* a pass of TranslationManager.compile has just ended, returning or throwing
PassEnded == returned.op = "compile" /\ returned.fresh

\* C5 (as claimed): resolving the units of a store always ends in values
\* or diagnostics: no pass dies of an exhausted call stack or of any other
\* error, every unit ends emitted or with a diagnostic, and a unit that
\* only embeds its own keys is emitted, not reported as a cycle.
C5_ResolutionEnds ==
  PassEnded =>
    /\ returned.threw = "none"
    /\ Len(returned.diagnostics)
         + Cardinality({u \in Units : IsEmitted(u)}) = Cardinality(Units)
    /\ \A u \in Units : LocalKeysExist(u) =>
         /\ IsEmitted(u)
         /\ \A d \in Diagnostics : d.path = u.path => d.kind # "circular-reference"

\* the case of C5 is reached: a pass has ended over a store that holds a
\* cross-unit cycle and a unit whose local keys embed each other and themselves
C5_CaseReached ==
  /\ PassEnded
  /\ \E a, b \in Units : C4_Case(a, b)
  /\ \E u \in Units : LocalLoop(u)

SelfReferencing(u) ==
  \E a \in Aliases(u) :
    /\ ValueAt(Doc(u), <<"references", a>>).v[1].k = "ref"
    /\ TargetsUnit(u, a, u.name)

\* C6 (as claimed): a unit whose references table holds an alias targeting
\* the unit itself always gets a self-reference diagnostic with its name
\* and path, and no entry in the output.
C6_SelfReferenceReported ==
  FreshPass => \A u \in Units : SelfReferencing(u) =>
    /\ ~IsEmitted(u)
    /\ \E d \in Diagnostics :
         d.kind = "self-reference" /\ d.name = u.name /\ d.path = u.path

(***************************************************************************)
(* C7 - C9: emitted content and parameters                                 *)
(***************************************************************************)
\* C7 (as claimed): a unit without references table and without embeddings
\* is emitted as its parsed source tree, nesting and leaves unchanged.
C7_IdentityWithoutReferences ==
  FreshPass => \A u \in Units :
    (ValueAt(Doc(u), <<"references">>).t = "undef" /\ EmbeddingsOf(u) = {}) =>
      /\ IsEmitted(u)
      /\ EmittedContent(u) = u.data

\* Transletta.compile has just returned a compiled output
Succeeded == returned.op = "build" /\ returned.threw = "none"

\* C8 (as claimed): no string of an output returned by a successful compile
\* holds an embedding placeholder.
C8_NoPlaceholderLeft ==
  Succeeded => \A i \in 1..Len(returned.result) :
    \A e \in Range(returned.result[i].translations) :
      \A j \in 1..Len(e.content) :
        e.content[j].val.t = "str" => ~HasEmbedding(e.content[j].val.v)

\* the string leaves of a tree in document order
RECURSIVE StringLeavesInOrder(_)
StringLeavesInOrder(ents) ==
  IF ents = <<>> THEN <<>>
  ELSE (IF Head(ents).val.t = "str" THEN <<Head(ents).val.v>>
        ELSE StringLeavesInOrder(Entries(Head(ents).val)))
       \o StringLeavesInOrder(Tail(ents))

RECURSIVE Flatten(_)
Flatten(seqs) == IF seqs = <<>> THEN <<>> ELSE Head(seqs) \o Flatten(Tail(seqs))

\* the names of the {name} placeholders of a unit in document order
PlaceholderNames(u) ==
  LET toks == SelectSeq(Flatten(StringLeavesInOrder(Body(u).v)),
                        LAMBDA tok : tok.k = "par")
  IN [i \in 1..Len(toks) |-> toks[i].p[1]]

\* the elements of a sequence at their first appearance
RECURSIVE FirstAppearances(_, _)
FirstAppearances(names, i) ==
  IF i > Len(names) THEN <<>>
  ELSE (IF \E j \in 1..(i - 1) : names[j] = names[i] THEN <<>> ELSE <<names[i]>>)
       \o FirstAppearances(names, i + 1)

RECURSIVE IsSubsequence(_, _)
IsSubsequence(a, b) ==
  IF a = <<>> THEN TRUE
  ELSE IF b = <<>> THEN FALSE
  ELSE IF Head(a) = Head(b) THEN IsSubsequence(Tail(a), Tail(b))
  ELSE IsSubsequence(a, Tail(b))

RECURSIVE KeyPaths(_)
KeyPaths(val) ==
  UNION {IF val.v[i].val.t = "tbl"
         THEN {<<val.v[i].key>> \o q : q \in KeyPaths(val.v[i].val)}
         ELSE {<<val.v[i].key>>} : i \in 1..Len(val.v)}

Locales == {cache[i].locale : i \in 1..Len(cache)}
NamesIn(locale) == {u.name : u \in {v \in Units : v.locale = locale}}
UnitOf(locale, name) == CHOOSE u \in Units : u.locale = locale /\ u.name = name
OnlyIn(l1, l2, name) == KeyPaths(Doc(UnitOf(l1, name))) \ KeyPaths(Doc(UnitOf(l2, name)))

\* the discrepancies between the primary locale and the other locales
Discrepancies ==
  UNION {
    {SchemaError("missing-file", l, n, <<>>) : n \in NamesIn(primaryLocale) \ NamesIn(l)}
    \cup {SchemaError("extra-file", l, n, <<>>) : n \in NamesIn(l) \ NamesIn(primaryLocale)}
    \cup UNION {
           {SchemaError("missing-key", l, n, k) : k \in OnlyIn(primaryLocale, l, n)}
           \cup {SchemaError("extra-key", l, n, k) : k \in OnlyIn(l, primaryLocale, n)} :
             n \in NamesIn(l) \cap NamesIn(primaryLocale)} :
      l \in Locales \ {primaryLocale}}

\* Transletta.compile has scanned a store with a primary locale and has
\* validated it
Validated ==
  /\ returned.op = "build"
  /\ returned.threw \notin {"parse", "primary"}

\* C10: validation reports each missing file, extra file, missing key and
\* extra key of a non-primary locale exactly once and nothing else (values
\* are not compared), and fails exactly when there is a discrepancy.
C10_SchemaValidation ==
  Validated =>
    /\ (returned.threw = "schema") = (Discrepancies # {})
    /\ Range(returned.schemaErrors) = Discrepancies
    /\ Len(returned.schemaErrors) = Cardinality(Discrepancies)

\* witness of C10: a failed validation reporting a missing file and a
\* missing key while a unit with other values and the same keys is not reported
C10_Witness ==
  /\ Validated
  /\ \E e \in Range(returned.schemaErrors) : e.kind = "missing-file"
  /\ \E e \in Range(returned.schemaErrors) : e.kind = "missing-key"
  /\ \E u \in Units :
       /\ u.locale # primaryLocale
       /\ u.name \in NamesIn(primaryLocale)
       /\ u.data # UnitOf(primaryLocale, u.name).data
       /\ \A e \in Range(returned.schemaErrors) : ~(e.locale = u.locale /\ e.file = u.name)

(***************************************************************************)
(* The order of the phases of Transletta.compile                           *)
(***************************************************************************)
IsPrefix(s, t) == Len(s) <= Len(t) /\ \A i \in 1..Len(s) : s[i] = t[i]

\* the store as it is would pass validateSchema
StoreIsValid == primaryLocale \in Locales /\ Discrepancies = {}

\* C11: one Transletta.compile goes scan, validate, resolve in this order;
\* it validates only a store its scan has completed, resolves only a store
\* that passed validation, and with the primary locale missing or a
\* discrepancy present it raises without having resolved anything.
C11_PhasesInOrder ==
  returned.op = "build" =>
    /\ returned.phases # <<>>
    /\ IsPrefix(returned.phases, <<"scan", "validate", "resolve">>)
    /\ ("validate" \in Range(returned.phases)) = (returned.threw # "parse")
    /\ ("resolve" \in Range(returned.phases)) =
         (returned.threw # "parse" /\ StoreIsValid)
    /\ (returned.threw # "parse" /\ ~StoreIsValid) =>
         /\ returned.threw \in {"primary", "schema"}
         /\ returned.result = <<>>
         /\ returned.diagnostics = <<>>

\* witness of C11: a compile that stopped at a discrepancy between locales
C11_Witness ==
  /\ returned.op = "build"
  /\ returned.threw = "schema"
  /\ Discrepancies # {}
  /\ returned.phases = <<"scan", "validate">>

(***************************************************************************)
(* What the manager keeps after a failed Transletta.compile                *)
(***************************************************************************)
Failed == returned.op = "build" /\ returned.threw # "none"

\* C12: after a Transletta.compile that failed (scan or parse failure,
\* primary locale missing, schema mismatch, resolution diagnostics) the
\* manager holds no compiled result, so a later TranslationManager.compile
\* without force has nothing of this run or of an earlier one to return.
C12_FailedCompileLeavesNoResult == Failed => compilationResult = <<>>

\* the part of C12 that is about resolution diagnostics
C12_DiagnosticsLeaveNoResult ==
  (returned.op = "build" /\ returned.threw = "diagnostics") => compilationResult = <<>>

(***************************************************************************)
(* C13 - C14: the diagnostics of one pass                                  *)
(***************************************************************************)
IsReference(u, a) ==
  /\ ValueAt(Doc(u), <<"references", a>>).t = "str"
  /\ ValueAt(Doc(u), <<"references", a>>).v[1].k = "ref"

\* alias a of u is bound to a unit of the locale
Resolves(u, a) ==
  /\ IsReference(u, a)
  /\ \E b \in Units : b.locale = u.locale /\ TargetsUnit(u, a, b.name)

\* the error conditions of a unit, read from the documents
MalformedReference(u) == \E a \in Aliases(u) : ~IsReference(u, a)
UnresolvedAlias(u) ==
  \E path \in EmbeddingsOf(u) : ThroughAlias(u, path) /\ ~Resolves(u, Head(path))
MissingKey(u) ==
  \E path \in EmbeddingsOf(u) :
    /\ ThroughAlias(u, path) => Resolves(u, Head(path))
    /\ Meaning(u, path).t = "undef"
Circular(u) == \E b \in Units : C4_Case(u, b)
ErrorCondition(u) ==
  \/ SelfReferencing(u)
  \/ MalformedReference(u)
  \/ UnresolvedAlias(u)
  \/ MissingKey(u)
  \/ Circular(u)

\* a pass that returned accounts for every unit: a unit with an error
\* condition has no entry, a unit whose embeddings all stand for plain
\* strings has one, and there is one diagnostic per unit without entry
C13_ReturnedPassAccounts ==
  FreshPass =>
    /\ \A u \in Units : ErrorCondition(u) => ~IsEmitted(u)
    /\ \A u \in Units : C2_Case(u) => IsEmitted(u)
    /\ Len(returned.diagnostics) = Cardinality({u \in Units : ~IsEmitted(u)})

\* C13 (as claimed): no error condition of a unit (self-reference,
\* unresolved alias, missing key or path, circular reference, malformed
\* reference) ends the pass: the pass returns, the unit has no entry, the
\* units that resolve are emitted, one diagnostic per failing unit.
C13_ErrorsAreNotFatal ==
  PassEnded =>
    /\ (\A u \in Units : ErrorCondition(u) \/ C2_Case(u)) => returned.threw = "none"
    /\ returned.threw = "none" =>
         /\ \A u \in Units : ErrorCondition(u) => ~IsEmitted(u)
         /\ \A u \in Units : C2_Case(u) => IsEmitted(u)
         /\ Len(returned.diagnostics) = Cardinality({u \in Units : ~IsEmitted(u)})

\* the case of C13 is reached: a pass has ended over a store where every
\* unit either has an error condition or resolves, with both kinds present
C13_CaseReached ==
  /\ PassEnded
  /\ \A u \in Units : ErrorCondition(u) \/ C2_Case(u)
  /\ \E u \in Units : ErrorCondition(u)
  /\ \E u \in Units : C2_Case(u)

\* the error conditions of unit u one by one: its aliases that target the
\* unit itself or are no reference, and its embeddings of local keys that
\* do not exist
Conditions(u) ==
  {<<"alias", a>> : a \in {b \in Aliases(u) : ~IsReference(u, b) \/ TargetsUnit(u, b, u.name)}}
  \cup {<<"key", path>> : path \in {q \in EmbeddingsOf(u) :
                                      ~ThroughAlias(u, q) /\ Meaning(u, q).t = "undef"}}

DiagnosticsOf(u) == {i \in 1..Len(returned.diagnostics) : returned.diagnostics[i].path = u.path}

\* C14 (as claimed): the diagnostics of one pass hold an entry for every
\* error condition of every unit, the second and later ones of a unit
\* included.
C14_EveryConditionReported ==
  FreshPass => \A u \in Units :
    Cardinality(DiagnosticsOf(u)) >= Cardinality(Conditions(u))

\* the case of C14 is reached: a pass has returned over a store with a
\* unit that has two error conditions
C14_CaseReached ==
  FreshPass /\ \E u \in Units : Cardinality(Conditions(u)) > 1

(***************************************************************************)
(* C15 - C18: what force means for compile and scan                        *)
(***************************************************************************)
\* the last call was an unforced TranslationManager.compile that returned
UnforcedReturned ==
  returned.op = "compile" /\ ~returned.force /\ returned.threw = "none"

FreshStore == scan(TRUE, <<>>, files).cache

\* C16 (as claimed): a TranslationManager.compile with force returns the
\* output of a pass over the files as they are when it is called, not over
\* a store an earlier scan has built.
C16_ForcedCompileReadsFiles ==
  [][Compile(TRUE) =>
       returned'.result = compile(TRUE, FreshStore, <<>>).result]_vars

\* the case of C16 is reached: a forced compile has returned while the
\* store differs from what the files hold
C16_CaseReached ==
  /\ returned.op = "compile" /\ returned.force /\ returned.threw = "none"
  /\ cache # FreshStore

\* the last call was a pass of TranslationManager.compile that returned
\* diagnostics
PassWithDiagnostics == FreshPass /\ Len(returned.diagnostics) > 0

\* C17 (as claimed): a TranslationManager.compile without force that follows
\* a pass with diagnostics does not return the partial output of that pass
\* with an empty list of diagnostics.
C17_NoCachedPartialResult ==
  [][(PassWithDiagnostics /\ Compile(FALSE)) =>
       ~(returned'.result = returned.result /\ returned'.diagnostics = <<>>)]_vars

\* the case of C17 is reached: a pass has returned diagnostics and the
\* output of the units that resolved
C17_CaseReached ==
  /\ PassWithDiagnostics
  /\ \E i \in 1..Len(compilationResult) : compilationResult[i].translations # <<>>

\* the locale directories of the input directory and the documents in them
LocaleDirs ==
  {d \in Range(files) :
     d.isDirectory /\ d.name \notin {".git", "_drafts", "generated"}}
DocumentsOf(d) ==
  {f \in Range(d.files) : f.isFile /\ f.name[Len(f.name)] = "toml"}
FileUnits ==
  UNION {{[locale |-> d.name, name |-> SubSeq(f.name, 1, Len(f.name) - 1),
           path |-> <<d.name>> \o f.name, data |-> f.content.v] :
            f \in {g \in DocumentsOf(d) : g.content.t = "tbl"}} : d \in LocaleDirs}
AllParse == \A d \in LocaleDirs : \A f \in DocumentsOf(d) : f.content.t = "tbl"

\* C18: a scan without force on a store that holds a locale reads nothing
\* and leaves the store and the compiled output as they are; a scan with
\* force leaves nothing of the earlier store: its units are those of the
\* files, all of them when every file parses.
C18_ScanForce ==
  [][/\ (Scan(FALSE) /\ Len(cache) > 0) =>
          /\ cache' = cache
          /\ compilationResult' = compilationResult
          /\ ~returned'.fresh
          /\ returned'.threw = "none"
     /\ Scan(TRUE) =>
          /\ returned'.fresh
          /\ Units' \subseteq FileUnits
          /\ Len(cache') = Cardinality({c.locale : c \in Range(cache')})
          /\ (returned'.threw = "none") = AllParse
          /\ AllParse =>
               /\ Units' = FileUnits
               /\ Locales' = {d.name : d \in LocaleDirs}
               /\ compilationResult' = compilationResult]_vars

\* witness of C18: a scan without force has returned without reading while
\* the files no longer are what the store holds
C18_Witness ==
  /\ returned.op = "scan" /\ ~returned.force /\ ~returned.fresh
  /\ Units # FileUnits
  /\ Units # {}
  /\ compilationResult # <<>>

(***************************************************************************)
(* C19: an alias nobody uses                                               *)
(***************************************************************************)
\* alias a of u is a reference '@B' or '@B.p' and the locale has no unit B
Broken(u, a) ==
  /\ IsReference(u, a)
  /\ Target(u, a)[1] = "@"
  /\ ~\E b \in Units : b.locale = u.locale /\ TargetsUnit(u, a, b.name)

\* the case of C19: u declares a broken alias, no embedding of u goes
\* through a broken alias, its other aliases are bound to other units, and
\* every embedding of u stands for a string without embeddings
C19_Case(u) ==
  /\ \E a \in Aliases(u) : Broken(u, a)
  /\ \A a \in Aliases(u) :
       \/ Broken(u, a) /\ \A path \in EmbeddingsOf(u) : Head(path) # a
       \/ Resolves(u, a) /\ ~TargetsUnit(u, a, u.name)
  /\ \A path \in EmbeddingsOf(u) :
       /\ ThroughAlias(u, path) => Len(path) > 1
       /\ Meaning(u, path).t = "str"
       /\ ~HasEmbedding(Meaning(u, path).v)

\* C19 (as claimed): a unit that declares an alias whose target unit cannot
\* be found and never embeds through it is compiled without a diagnostic
\* and is in the output.
C19_UnusedBrokenAliasIgnored ==
  FreshPass => \A u \in Units : C19_Case(u) =>
    /\ IsEmitted(u)
    /\ DiagnosticsOf(u) = {}

\* what the pass does with such a unit: no entry, and a diagnostic that the
\* reference is not found
C19_UnusedBrokenAliasReported ==
  FreshPass => \A u \in Units : C19_Case(u) =>
    /\ ~IsEmitted(u)
    /\ \E d \in Diagnostics :
         d.kind = "reference-not-found" /\ d.name = u.name /\ d.path = u.path

\* the case of C19 is reached: a pass has returned over a store with a unit
\* that declares a broken alias and does not use it
C19_CaseReached == FreshPass /\ \E u \in Units : C19_Case(u)

(***************************************************************************)
(* C20: Translation.get on a dotted path                                   *)
(***************************************************************************)
\* the positions of a key path whose prefix leads to no value in unit u
MissingAt(u, key) ==
  {i \in 1..Len(key) : ValueAt(Doc(u), SubSeq(key, 1, i)).t = "undef"}
FirstMissing(u, key) ==
  CHOOSE i \in MissingAt(u, key) : \A j \in MissingAt(u, key) : i <= j

Dotted == returned.op = "get" /\ Len(returned.key) > 1

\* C20 (as claimed): get on a dotted path s1.s2...sn returns the value at
\* that path when every segment exists, and otherwise raises a diagnostic
\* that names the first missing segment, whatever its position.
C20_GetNamesFirstMissing ==
  Dotted =>
    IF MissingAt(returned.this, returned.key) = {}
    THEN /\ returned.threw = "none"
         /\ returned.val = ValueAt(Doc(returned.this), returned.key)
    ELSE /\ returned.threw = "diagnostics"
         /\ returned.diagnostics[1].args =
              << <<returned.key[FirstMissing(returned.this, returned.key)]>> >>

\* what get does: the same, but with the first segment missing it names
\* the second segment
C20_GetNamesFromSecond ==
  Dotted =>
    IF MissingAt(returned.this, returned.key) = {}
    THEN /\ returned.threw = "none"
         /\ returned.val = ValueAt(Doc(returned.this), returned.key)
    ELSE /\ returned.threw = "diagnostics"
         /\ Len(returned.diagnostics) = 1
         /\ returned.diagnostics[1].name = returned.this.name
         /\ returned.diagnostics[1].args =
              LET m == FirstMissing(returned.this, returned.key)
              IN << <<returned.key[IF m = 1 THEN 2 ELSE m]>> >>

\* the case of C20 is reached: get was called with a dotted path whose
\* first segment is no key of the unit
C20_CaseReached ==
  /\ Dotted
  /\ 1 \in MissingAt(returned.this, returned.key)
  /\ Len(returned.key) = 3

(***************************************************************************)
(* C21 - C22: the alias alone, and whose diagnostic it is                  *)
(***************************************************************************)
\* the embeddings {@a} of u that name an alias bound to '@B.p' and nothing more
BareAliasEmbeddings(u) ==
  {path \in EmbeddingsOf(u) :
     /\ Len(path) = 1
     /\ ThroughAlias(u, path)
     /\ Resolves(u, Head(path))
     /\ TargetPath(u, Head(path)) # <<>>}

\* the case of C21: the aliases of u are bound to other units, u has an
\* embedding {@a} with a bound to '@B.p', and every embedding of u stands
\* for a string without embeddings
C21_Case(u) ==
  /\ ReferencesValid(u)
  /\ BareAliasEmbeddings(u) # {}
  /\ \A path \in EmbeddingsOf(u) :
       /\ Meaning(u, path).t = "str"
       /\ ~HasEmbedding(Meaning(u, path).v)

\* C21 (as claimed): an embedding {@a} with a bound to '@B.p' is looked up
\* at p and replaced by the string B holds at p; {@a.s} is looked up at p.s.
C21_AliasAloneResolved ==
  FreshPass => \A u \in Units : C21_Case(u) => EmittedExpanded(u, 1)

\* what the pass does with such a unit: it looks up `p.`, whose last
\* segment is empty, and reports that path as not found
C21_EmptySegmentLookedUp ==
  FreshPass => \A u \in Units : C21_Case(u) =>
    /\ ~IsEmitted(u)
    /\ \E d \in Diagnostics : d.kind = "path-not-found" /\ d.args = << <<"">> >>

\* the case of C21 is reached: a pass has returned over a store with a unit
\* that embeds {@b}, b bound to '@common.title', a string
C21_CaseReached == FreshPass /\ \E u \in Units : C21_Case(u)

\* the units of the store in the order a pass goes through them
UnitsInOrder == Flatten([i \in 1..Len(cache) |-> cache[i].units])
FailedInOrder == SelectSeq(UnitsInOrder, LAMBDA u : ~IsEmitted(u))

\* C22 (as claimed): each diagnostic of a pass carries the name and the
\* path of the unit whose resolution failed, also when the failure shows
\* while a key of a referenced unit is read or while the embeddings of a
\* fetched value are resolved.
C22_DiagnosticNamesOwner ==
  FreshPass =>
    /\ Len(returned.diagnostics) = Len(FailedInOrder)
    /\ \A i \in 1..Len(FailedInOrder) :
         /\ returned.diagnostics[i].name = FailedInOrder[i].name
         /\ returned.diagnostics[i].path = FailedInOrder[i].path

\* the part that holds: one diagnostic per failed unit, in the order of
\* the units
C22_OneDiagnosticPerFailedUnit ==
  FreshPass => Len(returned.diagnostics) = Len(FailedInOrder)

\* the case of C22 is reached: a pass has returned over a store with a unit
\* that embeds, through a bound alias, a key path the referenced unit does
\* not hold
C22_CaseReached ==
  /\ FreshPass
  /\ \E u \in Units :
       /\ ReferencesValid(u)
       /\ ~IsEmitted(u)
       /\ \E path \in EmbeddingsOf(u) :
            /\ ThroughAlias(u, path)
            /\ Len(path) > 2
            /\ Meaning(u, path).t = "undef"

(***************************************************************************)
(* C23: the compiled output a caller holds                                 *)
(***************************************************************************)
\* the last call was a compile that succeeded: its caller holds the
\* collection the manager keeps in compilationResult (compile returns
\* that very object), with compiled units in it
HoldsOutput ==
  /\ returned.op \in {"compile", "build"}
  /\ returned.threw = "none"
  /\ returned.diagnostics = <<>>
  /\ returned.result = compilationResult
  /\ \E i \in 1..Len(returned.result) : returned.result[i].translations # <<>>

\* C23 (as claimed): the contents of a compiled output returned by a
\* successful compile are not changed by a later scan, compile or clear of
\* the same instance.
C23_ReturnedOutputImmutable ==
  [][HoldsOutput => compilationResult' = compilationResult]_vars

\* the case of C23 is reached: a successful compile has returned an output
\* with compiled units
C23_CaseReached == HoldsOutput

(***************************************************************************)
(* C24: in watch-mode build and in the Next.js development watcher no two  *)
(* invocations of Transletta.compile on the instance are in flight         *)
(* together, and no validation or resolution observes a store that the     *)
(* scan of another invocation has cleared and only partly repopulated:     *)
(* an invocation whose scan read its locale directories without a failure  *)
(* validates a store that holds each of them.                              *)
(***************************************************************************)
ObservedPartlyRepopulated ==
  /\ returned.op = "build"
  /\ returned.threw # "parse"
  /\ ~(Range(returned.scanned) \subseteq Range(returned.observed))
C24_CallersSerialize ==
  /\ Cardinality(InFlight) <= 1
  /\ ~ObservedPartlyRepopulated
C24_OverlapReached ==
  /\ host.mode = "watch"
  /\ Cardinality(InFlight) = 2
C24_PartlyRepopulatedReached ==
  /\ host.mode = "next"
  /\ ObservedPartlyRepopulated
  /\ returned.threw = "primary"

(***************************************************************************)
(* C25: handleHotUpdate of the Vite plugin never runs two compilations at  *)
(* once, and its flag is reset after every outcome: at most one            *)
(* compilation started by a hot update is in progress, and isCompiling is  *)
(* set exactly while one is.                                               *)
(***************************************************************************)
HotUpdates == {i \in Running : host.running[i].by = "hot"}
C25_OneHotUpdateAtATime ==
  /\ Cardinality(HotUpdates) <= 1
  /\ host.isCompiling <=> HotUpdates # {}
\* a .toml update arrived while a hot-update compilation was past its start
\* and was turned away
C25_UpdateTurnedAway ==
  /\ host.stale
  /\ host.last = "toml"
  /\ \E i \in HotUpdates : host.running[i].pc \in {"locale", "emit", "notify"}
\* a hot-update compilation has failed and a later one is in progress
C25_CompilesAgainAfterFailure ==
  /\ returned.op = "build"
  /\ returned.threw = "schema"
  /\ \E i \in HotUpdates : host.running[i].pc = "readdir"

(***************************************************************************)
(* C26: with HMR enabled, every change of a .toml file is eventually       *)
(* followed by a compilation that started after the change.                *)
(***************************************************************************)
C26_ChangeEventuallyCompiled ==
  (host.configured /\ host.enableHMR /\ host.stale) ~> ~host.stale
\* a change was turned away and nothing is in flight or scheduled: the
\* output on disk is the one of the contents before the change
C26_ChangeLeftUncompiled ==
  /\ host.configured /\ host.enableHMR
  /\ host.stale
  /\ host.started
  /\ host.running = <<>>
  /\ host.emitted # <<>>

(***************************************************************************)
(* C27: in watch mode a burst of .toml events, each less than 300 ms after *)
(* the one before, triggers one rebuild, started 300 ms after the last     *)
(* event and leaving no timer behind; an event for a file that is not a    *)
(* .toml file or that lies under the output directory sets no timer and    *)
(* starts no rebuild; once the watcher is stopped no rebuild starts and no *)
(* timer is pending.                                                       *)
(***************************************************************************)
RebuildStarts ==
  /\ Len(host'.running) = Len(host.running) + 1
  /\ host'.running[Len(host'.running)].by = "timer"
C27_Debounced ==
  [][/\ RebuildStarts => host.since = Debounce /\ host'.timer = -1 /\ ~host.stopped
     /\ (host.mode = "watch" /\ Change /\ host'.last # "toml") =>
           host'.timer = host.timer /\ host'.running = host.running /\ cache' = cache
     /\ host'.stopped => host'.timer = -1 /\ ~RebuildStarts]_vars
\* a burst of two events or more is over and its one rebuild is in flight
C27_BurstRebuiltOnce ==
  /\ host.mode = "watch"
  /\ host.events = 2
  /\ host.timer = -1
  /\ host.last = "output"
  /\ Len(host.running) = 1
  /\ host.running[1].by = "timer"
\* the watcher was stopped while a rebuild was scheduled
C27_StoppedWithPendingRebuild ==
  /\ host.stopped
  /\ host.events > 0
  /\ host.since < Debounce
  /\ host.running = <<>>

(***************************************************************************)
(* C28 (as claimed): a scan that fails leaves the store empty or as it was *)
(* before the scan.                                                        *)
(***************************************************************************)
C28_FailedScanLeavesNoPartialStore ==
  [][\A force \in BOOLEAN :
       (Scan(force) /\ returned'.threw = "parse") => cache' \in {<<>>, cache}]_vars
\* a scan has failed and the store holds the units it had read by then
C28_PartialStoreLeft ==
  /\ returned.op = "scan"
  /\ returned.threw = "parse"
  /\ Len(cache) > 0
  /\ Units # {}
\* a scan without force was a no-op over a store that lacks a unit of a
\* locale directory whose files all parse
C28_UnforcedScanKeepsPartialStore ==
  /\ returned.op = "scan" /\ ~returned.force /\ ~returned.fresh
  /\ AllParse
  /\ \E i \in 1..Len(cache) : \E u \in FileUnits :
       /\ u.locale = cache[i].locale
       /\ u \notin Range(cache[i].units)
       /\ \A v \in Range(cache[i].units) : v \in FileUnits

(***************************************************************************)
(* C29 (as claimed): after scan(true) has replaced the store, the next     *)
(* TranslationManager.compile without force returns the output of the      *)
(* store as it is now.                                                     *)
(***************************************************************************)
C29_UnforcedCompileFollowsStore ==
  [][(Compile(FALSE) /\ returned.op = "scan" /\ returned.force /\ returned.threw = "none"
        /\ returned'.threw = "none") =>
       returned'.result = compile(TRUE, cache, <<>>).result]_vars
\* an unforced compile has answered from the collection while the store
\* resolves to something else
C29_StaleOutputReturned ==
  /\ returned.op = "compile" /\ ~returned.force /\ ~returned.fresh
  /\ compile(TRUE, cache, <<>>).threw = "none"
  /\ Len(compile(TRUE, cache, <<>>).diagnostics) = 0
  /\ returned.result # compile(TRUE, cache, <<>>).result

(***************************************************************************)
(* C30 (as claimed): after syncCommand has completed every locale matches  *)
(* the primary locale, so that validation passes: the scan of the input    *)
(* directory reads every file and validateSchema finds no discrepancy, and *)
(* every value a locale had at a key path of the primary is the value it   *)
(* has now.                                                                *)
(***************************************************************************)
Synced == returned.op = "sync" /\ returned.threw = "none"
RECURSIVE ValueOfPath(_, _)
ValueOfPath(data, path) ==
  IF Len(path) = 1 THEN Lookup(data, path[1])
  ELSE IF Lookup(data, path[1]).t = "tbl"
  THEN ValueOfPath(Lookup(data, path[1]).v, Tail(path))
  ELSE Undef
Preserved(before, after) ==
  \A name \in {"common", "home"} : \A locale \in {"fr", "de"} :
    LET primary == fileOf(dirFiles(after, primaryLocale), <<name, "toml">>)
        old == fileOf(dirFiles(before, locale), <<name, "toml">>)
        new == fileOf(dirFiles(after, locale), <<name, "toml">>)
    IN (primary.t = "tbl" /\ old.t = "tbl") =>
         \A path \in Range(extractKeys(primary.v, <<>>)) :
           ValueOfPath(old.v, path).t \notin {"undef", "tbl"} =>
             new.t = "tbl" /\ ValueOfPath(new.v, path) = ValueOfPath(old.v, path)
C30_SyncedLocalesMatchPrimary ==
  Synced =>
    /\ ~scan(TRUE, <<>>, files).threw
    /\ validateSchema(FreshStore).primaryFound
    /\ validateSchema(FreshStore).schemaErrors = <<>>
    /\ Preserved(returned.before, files)
\* what does hold: no file and no key of the primary is missing, no file is
\* extra, and the values are preserved
C30_SyncedLocalesLackNothing ==
  Synced =>
    /\ ~scan(TRUE, <<>>, files).threw
    /\ validateSchema(FreshStore).primaryFound
    /\ \A e \in Range(validateSchema(FreshStore).schemaErrors) : e.kind = "extra-key"
    /\ Preserved(returned.before, files)
\* a sync has completed over a locale that had a key the primary lacks, and
\* validation reports the key
C30_ExtraKeyLeft ==
  /\ Synced
  /\ \E e \in Range(validateSchema(FreshStore).schemaErrors) :
       e.kind = "extra-key" /\ e.locale = "fr"
\* the build that follows a completed sync has failed its validation
C30_BuildFailsAfterSync ==
  /\ returned.op = "build"
  /\ returned.threw = "schema"
  /\ syncCommand(files) = [threw |-> FALSE, files |-> files]

====
